---- MODULE Spec2Model ----
(***************************************************************************)
(* The plugin runtime of src/server/game/Plugins: PluginManager (the       *)
(* registry, the loader, the dependency resolver) driving plugin instances *)
(* whose lifecycle methods are those of Examples/ExamplePlugin.            *)
(*                                                                         *)
(* A host thread calls one administrative operation at a time.  A step of  *)
(* the model is one stretch of an operation between two points where       *)
(* another thread can observe it: taking a mutex, or one write of a        *)
(* plugin's _state.                                                        *)
(***************************************************************************)
EXTENDS Integers, Sequences, FiniteSets, TLC

(***************************************************************************)
(* Bounds.                                                                 *)
(***************************************************************************)
\* LoadedPlugin objects made from one module file that may exist at a time.
MaxSlots == 2
\* Longest dependency list a descriptor declares.
MaxDeps == 2

\* The login dispatches a run completes on one plugin before the host stops
\* starting new ones.
MaxLogins == 2

(***************************************************************************)
(* enum class PluginState, enum class PluginPriority.                      *)
(***************************************************************************)
PluginState ==
    {"UNLOADED", "LOADING", "LOADED", "INITIALIZING", "INITIALIZED",
     "RUNNING", "STOPPING", "ERROR"}

PluginPriority ==
    [LOWEST |-> 0, LOW |-> 1, NORMAL |-> 2, HIGH |-> 3, HIGHEST |-> 4, CRITICAL |-> 5]

(***************************************************************************)
(* The module files the host may pass to LoadPlugin.  A file is what       *)
(* std::filesystem::exists, dlopen, dlsym and the factory make of it, plus *)
(* the descriptor and the lifecycle results of the plugin it holds.        *)
(***************************************************************************)
GoodModule(n, prio) ==
    [exists |-> TRUE, binds |-> TRUE, hasCreate |-> TRUE, hasDestroy |-> TRUE,
     creates |-> TRUE, name |-> n, version |-> "1.0.0", priority |-> prio,
     loadOk |-> TRUE, initOk |-> TRUE, initFail |-> "ERROR", checkDeps |-> {TRUE},
     hasHandler |-> TRUE]

Catalog ==
    [f \in {"a.so", "a2.so", "b.so", "c.so", "c2.so", "c3.so", "noload.so",
            "missing.so", "nobind.so", "nosym.so", "null.so", "noname.so",
            "nover.so"} |->
        CASE f = "a.so"       -> GoodModule("A", PluginPriority.HIGH)
          [] f = "a2.so"      -> GoodModule("A", PluginPriority.NORMAL)
          [] f = "b.so"       -> [GoodModule("B", PluginPriority.NORMAL)
                                    EXCEPT !.hasDestroy = FALSE,
                                           !.checkDeps = {TRUE, FALSE}]
          [] f = "c.so"       -> [GoodModule("C", PluginPriority.HIGH)
                                    EXCEPT !.initOk = FALSE]
          [] f = "c2.so"      -> GoodModule("C", PluginPriority.HIGH)
          [] f = "c3.so"      -> [GoodModule("C", PluginPriority.HIGH)
                                    EXCEPT !.initOk = FALSE,
                                           !.initFail = "INITIALIZING"]
          [] f = "noload.so"  -> [GoodModule("D", PluginPriority.NORMAL)
                                    EXCEPT !.loadOk = FALSE]
          [] f = "missing.so" -> [GoodModule("E", PluginPriority.NORMAL)
                                    EXCEPT !.exists = FALSE]
          [] f = "nobind.so"  -> [GoodModule("E", PluginPriority.NORMAL)
                                    EXCEPT !.binds = FALSE]
          [] f = "nosym.so"   -> [GoodModule("E", PluginPriority.NORMAL)
                                    EXCEPT !.hasCreate = FALSE]
          [] f = "null.so"    -> [GoodModule("E", PluginPriority.NORMAL)
                                    EXCEPT !.creates = FALSE]
          [] f = "noname.so"  -> GoodModule("", PluginPriority.NORMAL)
          [] f = "nover.so"   -> [GoodModule("E", PluginPriority.NORMAL)
                                    EXCEPT !.version = ""]]

Files == DOMAIN Catalog

\* The event hooks of the host: notifications return nothing, packet events
\* return whether the packet may pass.
NotificationEvents == {"OnPlayerLogin", "OnPlayerLogout", "OnWorldUpdate"}

FilterEvents == {"OnPacketReceive", "OnPacketSend"}

DispatchEvents == NotificationEvents \cup FilterEvents

\* The names whose dependency lists vary from run to run.
PluginNames == {"A", "B", "C"}

\* A name that plugins may depend on and that no module file carries.
MissingName == "M"

DepNames == PluginNames \cup {MissingName}

\* A plugin is ExamplePlugin-like when neither Load nor Initialize fails.
ExampleLike(f) == Catalog[f].loadOk /\ Catalog[f].initOk

Threads == {"t1", "t2"}

NoThread == "none"

NoLib == [file |-> "none"]

\* A LoadedPlugin object is known by the file it was made from and a number.
Slots == Files \X (1..MaxSlots)

NoSlot == <<"none", 0>>

VARIABLES
    depsOf,              \* name -> the _dependencies of the plugin of that name
    active,              \* the host threads that call into the manager
    lib,                 \* slot -> LoadedPlugin object, its instance and its module
    _loadedPlugins,      \* name -> slot of the owned LoadedPlugin
    _eventHandlers,      \* name -> slot of the plugin whose handler is bound
    _pluginsMutex,       \* owner of _pluginsMutex
    _eventHandlersMutex, \* owner of _eventHandlersMutex
    _lastError,          \* the last-error slot
    pc,                  \* thread -> where it is
    loc,                 \* thread -> the locals of its call
    ret,                 \* thread -> what its last call returned
    crashed,             \* the process died
    registered,          \* the names with a handler bound, in the order they were bound
    _instance,           \* the static _instance: 0 (null) or the number of the manager
    _instanceMutex,      \* owner of the static _instanceMutex
    constructed          \* the PluginManager objects constructed so far

\* The static members of the class and the count of its constructions.
statics == <<_instance, _instanceMutex, constructed>>

vars == <<depsOf, active, lib, _loadedPlugins, _eventHandlers, _pluginsMutex,
          _eventHandlersMutex, _lastError, pc, loc, ret, crashed, registered,
          _instance, _instanceMutex, constructed>>

(***************************************************************************)
(* Helpers.                                                                *)
(***************************************************************************)
Range(f) == {f[x] : x \in DOMAIN f}

SeqToSet(s) == {s[i] : i \in 1..Len(s)}

\* std::find(v.begin(), v.end(), x) != v.end()
Contains(s, x) == \E i \in 1..Len(s) : s[i] = x

\* Sequences over S of length at most n.
RECURSIVE SeqsUpTo(_, _)
SeqsUpTo(S, n) ==
    IF n = 0 THEN {<<>>}
    ELSE LET shorter == SeqsUpTo(S, n - 1)
         IN shorter \cup {Append(s, x) : s \in {q \in shorter : Len(q) = n - 1}, x \in S}

NoDupSeqs(S, n) == {s \in SeqsUpTo(S, n) : Cardinality(SeqToSet(s)) = Len(s)}

Perms(S) == {s \in NoDupSeqs(S, Cardinality(S)) : Len(s) = Cardinality(S)}

MapPut(m, k, v) == [x \in DOMAIN m \cup {k} |-> IF x = k THEN v ELSE m[x]]

MapErase(m, k) == [x \in DOMAIN m \ {k} |-> m[x]]

EmptyMap == [x \in {} |-> 0]

NoLoc ==
    [op |-> "none", name |-> "", file |-> "none", slot |-> NoSlot, loadOrder |-> <<>>,
     i |-> 0, names |-> {}, outer |-> "none", stopped |-> FALSE,
     pending |-> <<>>, gathered |-> <<>>, handlers |-> <<>>, invoked |-> <<>>,
     tmp |-> 0]

NoRet ==
    [op |-> "none", arg |-> "", ok |-> FALSE, err |-> "none", bound |-> FALSE, closes |-> 0,
     created |-> 0, destroys |-> 0, instance |-> 0,
     stopped |-> FALSE, handlers |-> <<>>, invoked |-> <<>>]

Ret(op, arg, ok, err) == [NoRet EXCEPT !.op = op, !.arg = arg, !.ok = ok, !.err = err]

\* The result of a call that bound a module or owned one: created counts the
\* calls of the module's CreatePlugin made for that LoadedPlugin, destroys
\* the calls of its DestroyPlugin, closes the dlclose/FreeLibrary calls made
\* on that module's handle.
RetLib(op, arg, ok, err, rec) ==
    [Ret(op, arg, ok, err) EXCEPT !.bound = TRUE, !.closes = rec.closes,
                                  !.created = rec.created, !.destroys = rec.destroys]

FreeSlots(f) == {k \in 1..MaxSlots : lib[<<f, k>>] = NoLib}

\* The plugin's GetDependencies(): the _dependencies of its descriptor.
GetDependencies(f) ==
    IF Catalog[f].name \in DOMAIN depsOf THEN depsOf[Catalog[f].name] ELSE <<>>

(***************************************************************************)
(* Initial states: a manager right after construction, with no plugin.     *)
(***************************************************************************)
DepLists == NoDupSeqs(DepNames, MaxDeps)

\* The members of a PluginManager just constructed, and its callers.
InitMembers ==
    /\ lib = [s \in Slots |-> NoLib]
    /\ _loadedPlugins = EmptyMap
    /\ _eventHandlers = EmptyMap
    /\ _pluginsMutex = NoThread
    /\ _eventHandlersMutex = NoThread
    /\ _lastError = "none"
    /\ pc = [t \in Threads |-> "idle"]
    /\ loc = [t \in Threads |-> NoLoc]
    /\ ret = [t \in Threads |-> NoRet]
    /\ crashed = FALSE
    /\ registered = <<>>

\* The host has called Instance(): the one manager exists.
InitManager ==
    /\ InitMembers
    /\ _instance = 1
    /\ _instanceMutex = NoThread
    /\ constructed = 1

(***************************************************************************)
(* Calls and returns.                                                      *)
(***************************************************************************)
\* The loop a nested call returns to.
LoopOf(outer) ==
    CASE outer = "InitializeAllPlugins" -> "InitializeAll_loop"
      [] outer = "UnloadAllPlugins"     -> "UnloadAll_loop"
      [] OTHER                          -> "idle"

\* Thread t returns r from the call it is in: to the host, or to the loop of
\* the bulk operation that made the call.
Return(t, r) ==
    /\ pc' = [pc EXCEPT ![t] = LoopOf(loc[t].outer)]
    /\ loc' = [loc EXCEPT ![t] = IF loc[t].outer = "none" THEN NoLoc
                                  ELSE [NoLoc EXCEPT !.op = loc[t].outer,
                                                     !.loadOrder = loc[t].loadOrder,
                                                     !.i = loc[t].i,
                                                     !.names = loc[t].names,
                                                     !.outer = loc[t].outer]]
    /\ ret' = [ret EXCEPT ![t] = IF loc[t].outer = "none" THEN r ELSE ret[t]]

\* An operation that does not wait for _pluginsMutex.
LockPlugins_NoLock(t) == TRUE

\* std::lock_guard<std::mutex> lock(_pluginsMutex) at the top of an operation.
LockPlugins(t) == _pluginsMutex = NoThread

Running(t) == t \in active /\ ~crashed

\* The host calls an operation; the call first waits for the lock it takes.
Call(t, op, name, file) ==
    /\ Running(t)
    /\ pc[t] = "idle"
    /\ pc' = [pc EXCEPT ![t] = op]
    /\ loc' = [loc EXCEPT ![t] = [NoLoc EXCEPT !.op = op, !.name = name, !.file = file]]
    /\ ret' = [ret EXCEPT ![t] = NoRet]
    /\ UNCHANGED <<statics, depsOf, active, registered, lib, _loadedPlugins, _eventHandlers, _pluginsMutex,
                   _eventHandlersMutex, _lastError, crashed>>

(***************************************************************************)
(* The loader: LoadPluginLibrary, UnloadPluginLibrary, ValidatePlugin.     *)
(***************************************************************************)
\* LoadedPlugin() and the _state a new IPlugin starts in.  _totalLogins is
\* the uint32 counter of the plugin (ExamplePlugin's constructor sets it to
\* 0; MaxLogins keeps it far from the width's end);
\* logins counts the calls of TrackPlayerLogin completed on the instance.
NewLoadedPlugin(f) ==
    [file |-> f, owner |-> "local", handle |-> FALSE, closes |-> 0, created |-> 0,
     destroys |-> 0, plugin |-> FALSE, _totalLogins |-> 0, logins |-> 0,
     state |-> "UNLOADED", createFunc |-> FALSE, destroyFunc |-> FALSE]

\* An UnloadPluginLibrary that does not close the handle.
UnloadPluginLibrary_NoClose(rec) ==
    [rec EXCEPT !.createFunc = FALSE,
                !.destroyFunc = FALSE,
                !.plugin = FALSE]

\* UnloadPluginLibrary: closes the handle if there is one, clears the entry
\* points, then destroys the instance.  destroyFunc is set to null without
\* having been called: destroys stays as it is.
UnloadPluginLibrary(rec) ==
    [rec EXCEPT !.closes = IF rec.handle THEN @ + 1 ELSE @,
                !.handle = FALSE,
                !.createFunc = FALSE,
                !.destroyFunc = FALSE,
                !.plugin = FALSE]

\* A LoadPluginLibrary that returns without UnloadPluginLibrary when the
\* module lacks CreatePlugin.
LoadPluginLibrary_KeepsHandle(f, rec) ==
    LET m == Catalog[f]
        bound == [rec EXCEPT !.handle = TRUE,
                             !.createFunc = m.hasCreate,
                             !.destroyFunc = m.hasDestroy]
    IN  IF ~m.binds THEN [ok |-> FALSE, err |-> "bind_failed", rec |-> rec]
        ELSE IF ~bound.createFunc
             THEN [ok |-> FALSE, err |-> "no_create", rec |-> bound]
             ELSE [ok |-> TRUE, err |-> "ok",
                   rec |-> [bound EXCEPT !.plugin = m.creates, !.created = @ + 1]]

\* A LoadPluginLibrary that rejects a module without DestroyPlugin as it
\* rejects one without CreatePlugin.
LoadPluginLibrary_NeedsDestroy(f, rec) ==
    LET m == Catalog[f]
        bound == [rec EXCEPT !.handle = TRUE,
                             !.createFunc = m.hasCreate,
                             !.destroyFunc = m.hasDestroy]
    IN  IF ~m.binds THEN [ok |-> FALSE, err |-> "bind_failed", rec |-> rec]
        ELSE IF ~bound.createFunc \/ ~bound.destroyFunc
             THEN [ok |-> FALSE, err |-> "no_create", rec |-> UnloadPluginLibrary(bound)]
             ELSE [ok |-> TRUE, err |-> "ok",
                   rec |-> [bound EXCEPT !.plugin = m.creates, !.created = @ + 1]]

\* LoadPluginLibrary: [ok, err, rec].
LoadPluginLibrary(f, rec) ==
    LET m == Catalog[f]
        bound == [rec EXCEPT !.handle = TRUE,
                             !.createFunc = m.hasCreate,
                             !.destroyFunc = m.hasDestroy]
    IN  IF ~m.binds THEN [ok |-> FALSE, err |-> "bind_failed", rec |-> rec]
        ELSE IF ~bound.createFunc
             THEN [ok |-> FALSE, err |-> "no_create", rec |-> UnloadPluginLibrary(bound)]
             ELSE [ok |-> TRUE, err |-> "ok",
                   rec |-> [bound EXCEPT !.plugin = m.creates, !.created = @ + 1]]

\* A ValidatePlugin that does not look at the version.
ValidatePlugin_NoVersion(f) ==
    IF Catalog[f].name = "" THEN "empty_name" ELSE "ok"

\* ValidatePlugin: "ok" or the error it records.
ValidatePlugin(f) ==
    IF Catalog[f].name = "" THEN "empty_name"
    ELSE IF Catalog[f].version = "" THEN "empty_version"
    ELSE "ok"

\* The module of file f stays mapped after the handle of slot s is closed
\* when another handle on the same file is open (dlopen counts references).
StillMapped(s, f) ==
    \E o \in Slots \ {s} : lib[o] # NoLib /\ lib[o].file = f /\ lib[o].handle

\* UnloadPluginLibrary destroys the instance (plugin.reset()) after it closed
\* the module that holds the instance's destructor: undefined when that
\* unmapped the module.  The build either runs the destructor or dies.
ResetOutcomes(s, rec) ==
    IF rec.plugin /\ rec.handle /\ ~StillMapped(s, rec.file) THEN {"ok", "crash"} ELSE {"ok"}

\* The LoadedPlugin object is destroyed (~LoadedPlugin is implicit: it deletes
\* the instance and does not close the handle).  A module closed once leaves
\* nothing behind; one left open, or closed twice, stays on record.
Dispose(rec) ==
    IF ~rec.handle /\ rec.closes <= 1 THEN NoLib
    ELSE [rec EXCEPT !.owner = "gone", !.plugin = FALSE]

\* The process dies inside UnloadPluginLibrary of slot s.
CrashInUnload(s, rec) ==
    /\ crashed' = TRUE
    /\ lib' = [lib EXCEPT ![s] = [UnloadPluginLibrary(rec) EXCEPT !.plugin = TRUE]]
    /\ UNCHANGED <<statics, depsOf, active, registered, _loadedPlugins, _eventHandlers, _pluginsMutex,
                   _eventHandlersMutex, _lastError, pc, loc, ret>>

(***************************************************************************)
(* PluginManager::Instance.                                                *)
(***************************************************************************)
\* An Instance() that does not wait for _instanceMutex.
InstanceEnter_NoLock(t) ==
    /\ Running(t)
    /\ pc[t] = "Instance"
    /\ _instanceMutex' = t
    /\ pc' = [pc EXCEPT ![t] = "Instance_check"]
    /\ UNCHANGED <<depsOf, active, lib, _loadedPlugins, _eventHandlers, _pluginsMutex,
                   _eventHandlersMutex, _lastError, loc, ret, crashed, registered,
                   _instance, constructed>>

\* std::lock_guard<std::mutex> lock(_instanceMutex).
InstanceEnter(t) ==
    /\ Running(t)
    /\ pc[t] = "Instance"
    /\ _instanceMutex = NoThread
    /\ _instanceMutex' = t
    /\ pc' = [pc EXCEPT ![t] = "Instance_check"]
    /\ UNCHANGED <<depsOf, active, lib, _loadedPlugins, _eventHandlers, _pluginsMutex,
                   _eventHandlersMutex, _lastError, loc, ret, crashed, registered,
                   _instance, constructed>>

\* if (!_instance)
InstanceCheck(t) ==
    /\ Running(t)
    /\ pc[t] = "Instance_check"
    /\ pc' = [pc EXCEPT ![t] = IF _instance = 0 THEN "Instance_new" ELSE "Instance_return"]
    /\ UNCHANGED <<statics, depsOf, active, lib, _loadedPlugins, _eventHandlers, _pluginsMutex,
                   _eventHandlersMutex, _lastError, loc, ret, crashed, registered>>

\* _instance = std::unique_ptr<PluginManager>(new PluginManager()): one more
\* manager is constructed and _instance points to it.
InstanceNew(t) ==
    /\ Running(t)
    /\ pc[t] = "Instance_new"
    /\ constructed' = constructed + 1
    /\ _instance' = constructed + 1
    /\ pc' = [pc EXCEPT ![t] = "Instance_return"]
    /\ UNCHANGED <<depsOf, active, lib, _loadedPlugins, _eventHandlers, _pluginsMutex,
                   _eventHandlersMutex, _lastError, loc, ret, crashed, registered,
                   _instanceMutex>>

\* return _instance.get(); the lock_guard releases _instanceMutex.
InstanceReturn(t) ==
    /\ Running(t)
    /\ pc[t] = "Instance_return"
    /\ _instanceMutex' = NoThread
    /\ Return(t, [Ret("Instance", "", _instance # 0, "ok") EXCEPT !.instance = _instance])
    /\ UNCHANGED <<depsOf, active, lib, _loadedPlugins, _eventHandlers, _pluginsMutex,
                   _eventHandlersMutex, _lastError, crashed, registered,
                   _instance, constructed>>

(***************************************************************************)
(* PluginManager::LoadPlugin.                                              *)
(***************************************************************************)
\* A LoadPlugin that does not look the name up in the table.
LoadPluginChecks_NoLookup(f) ==
    LET m == Catalog[f]
        new == NewLoadedPlugin(f)
        ll == LoadPluginLibrary(f, new)
    IN  IF ~m.exists
        THEN [err |-> "not_exist", rec |-> new, release |-> FALSE, bound |-> FALSE]
        ELSE IF ~ll.ok
        THEN [err |-> ll.err, rec |-> ll.rec, release |-> FALSE, bound |-> m.binds]
        ELSE IF ~ll.rec.plugin
        THEN [err |-> "no_instance", rec |-> ll.rec, release |-> TRUE, bound |-> TRUE]
        ELSE IF ValidatePlugin(f) # "ok"
        THEN [err |-> ValidatePlugin(f), rec |-> ll.rec, release |-> TRUE, bound |-> TRUE]
        ELSE [err |-> "ok", rec |-> ll.rec, release |-> FALSE, bound |-> TRUE]

\* LoadPlugin up to the call of the plugin's Load(): the error it stops with
\* ("ok" when it goes on), the LoadedPlugin at that point, and whether the
\* failure path calls UnloadPluginLibrary.
LoadPluginChecks(f) ==
    LET m == Catalog[f]
        new == NewLoadedPlugin(f)
        ll == LoadPluginLibrary(f, new)
    IN  IF ~m.exists
        THEN [err |-> "not_exist", rec |-> new, release |-> FALSE, bound |-> FALSE]
        ELSE IF ~ll.ok
        THEN [err |-> ll.err, rec |-> ll.rec, release |-> FALSE, bound |-> m.binds]
        ELSE IF ~ll.rec.plugin
        THEN [err |-> "no_instance", rec |-> ll.rec, release |-> TRUE, bound |-> TRUE]
        ELSE IF ValidatePlugin(f) # "ok"
        THEN [err |-> ValidatePlugin(f), rec |-> ll.rec, release |-> TRUE, bound |-> TRUE]
        ELSE IF m.name \in DOMAIN _loadedPlugins
        THEN [err |-> "already_loaded", rec |-> ll.rec, release |-> TRUE, bound |-> TRUE]
        ELSE [err |-> "ok", rec |-> ll.rec, release |-> FALSE, bound |-> TRUE]

\* What LoadPlugin returns to the host.
LoadRet(f, ok, err, bound, rec) ==
    IF bound THEN RetLib("LoadPlugin", f, ok, err, rec) ELSE Ret("LoadPlugin", f, ok, err)

\* A failure path of LoadPlugin: the error is recorded, the module released
\* where the code releases it, the lock dropped, false returned.
LoadPluginFail(t, s, chk) ==
    \E out \in (IF chk.release THEN ResetOutcomes(s, chk.rec) ELSE {"ok"}) :
        LET rec == IF chk.release THEN UnloadPluginLibrary(chk.rec) ELSE chk.rec
        IN  IF out = "crash"
            THEN CrashInUnload(s, chk.rec)
            ELSE /\ _lastError' = chk.err
                 /\ lib' = [lib EXCEPT ![s] = Dispose(rec)]
                 /\ _pluginsMutex' = NoThread
                 /\ Return(t, LoadRet(loc[t].file, FALSE, chk.err, chk.bound, rec))
                 /\ UNCHANGED <<statics, depsOf, active, registered, _loadedPlugins, _eventHandlers,
                                _eventHandlersMutex, crashed>>

\* LoadPlugin from the lock to the call of plugin->Load().
LoadPlugin(t) ==
    /\ Running(t)
    /\ pc[t] = "LoadPlugin"
    /\ LockPlugins(t)
    /\ FreeSlots(loc[t].file) # {}
    /\ LET f == loc[t].file
           s == <<f, CHOOSE x \in FreeSlots(f) : \A y \in FreeSlots(f) : x <= y>>
           chk == LoadPluginChecks(f)
       IN  IF chk.err = "ok"
           THEN /\ lib' = [lib EXCEPT ![s] = chk.rec]
                /\ _pluginsMutex' = t
                /\ pc' = [pc EXCEPT ![t] = "Load_enter"]
                /\ loc' = [loc EXCEPT ![t].slot = s]
                /\ UNCHANGED <<statics, depsOf, active, registered, _loadedPlugins, _eventHandlers,
                               _eventHandlersMutex, _lastError, ret, crashed>>
           ELSE LoadPluginFail(t, s, chk)

\* ExamplePlugin::Load, first write: _state = LOADING.
PluginLoadEnter(t) ==
    /\ Running(t)
    /\ pc[t] = "Load_enter"
    /\ lib' = [lib EXCEPT ![loc[t].slot].state = "LOADING"]
    /\ pc' = [pc EXCEPT ![t] = "Load_exit"]
    /\ UNCHANGED <<statics, depsOf, active, registered, _loadedPlugins, _eventHandlers, _pluginsMutex,
                   _eventHandlersMutex, _lastError, loc, ret, crashed>>

\* The state a plugin's Load() leaves and the value it returns.
PluginLoadResult(f) ==
    IF Catalog[f].loadOk THEN [state |-> "LOADED", ok |-> TRUE]
    ELSE [state |-> "UNLOADED", ok |-> FALSE]

\* A LoadPlugin that inserts the plugin whatever its Load() returned.
PluginLoadExit_AcceptsAnyway(t) ==
    /\ Running(t)
    /\ pc[t] = "Load_exit"
    /\ LET s == loc[t].slot
           f == loc[t].file
           res == PluginLoadResult(f)
           rec == [lib[s] EXCEPT !.state = res.state]
       IN  /\ _loadedPlugins' = MapPut(_loadedPlugins, Catalog[f].name, s)
           /\ lib' = [lib EXCEPT ![s] = [rec EXCEPT !.owner = "table"]]
           /\ _pluginsMutex' = NoThread
           /\ Return(t, LoadRet(f, TRUE, "ok", TRUE, rec))
           /\ UNCHANGED <<statics, depsOf, active, registered, _eventHandlers, _eventHandlersMutex,
                          _lastError, crashed>>

\* ExamplePlugin::Load returns, and LoadPlugin goes on to its end.
PluginLoadExit(t) ==
    /\ Running(t)
    /\ pc[t] = "Load_exit"
    /\ LET s == loc[t].slot
           f == loc[t].file
           res == PluginLoadResult(f)
           rec == [lib[s] EXCEPT !.state = res.state]
       IN  IF res.ok
           THEN /\ _loadedPlugins' = MapPut(_loadedPlugins, Catalog[f].name, s)
                /\ lib' = [lib EXCEPT ![s] = [rec EXCEPT !.owner = "table"]]
                /\ _pluginsMutex' = NoThread
                /\ Return(t, LoadRet(f, TRUE, "ok", TRUE, rec))
                /\ UNCHANGED <<statics, depsOf, active, registered, _eventHandlers, _eventHandlersMutex,
                               _lastError, crashed>>
           ELSE LoadPluginFail(t, s, [err |-> "load_failed", rec |-> rec,
                                      release |-> TRUE, bound |-> TRUE])

(***************************************************************************)
(* The plugin's Stop, Unload and Start (ExamplePlugin's).                  *)
(***************************************************************************)
\* ExamplePlugin::Stop, first write: _state = STOPPING.
PluginStopEnter(t) ==
    /\ Running(t)
    /\ pc[t] = "Stop_enter"
    /\ lib' = [lib EXCEPT ![loc[t].slot].state = "STOPPING"]
    /\ pc' = [pc EXCEPT ![t] = "Stop_exit"]
    /\ UNCHANGED <<statics, depsOf, active, registered, _loadedPlugins, _eventHandlers, _pluginsMutex,
                   _eventHandlersMutex, _lastError, loc, ret, crashed>>

\* A Stop() that leaves the plugin INITIALIZED, ready to be started again.
PluginStopExit_ToInitialized(t) ==
    /\ Running(t)
    /\ pc[t] = "Stop_exit"
    /\ lib' = [lib EXCEPT ![loc[t].slot].state = "INITIALIZED"]
    /\ pc' = [pc EXCEPT ![t] = IF loc[t].op = "UnloadPlugin" THEN "Unload_unload"
                                ELSE "StopAll_loop"]
    /\ loc' = [loc EXCEPT ![t].stopped = TRUE]
    /\ UNCHANGED <<statics, depsOf, active, registered, _loadedPlugins, _eventHandlers, _pluginsMutex,
                   _eventHandlersMutex, _lastError, ret, crashed>>

\* ExamplePlugin::Stop, last write: _state = LOADED; back in the caller.
PluginStopExit(t) ==
    /\ Running(t)
    /\ pc[t] = "Stop_exit"
    /\ lib' = [lib EXCEPT ![loc[t].slot].state = "LOADED"]
    /\ pc' = [pc EXCEPT ![t] = IF loc[t].op = "UnloadPlugin" THEN "Unload_unload"
                                ELSE "StopAll_loop"]
    /\ loc' = [loc EXCEPT ![t].stopped = TRUE]
    /\ UNCHANGED <<statics, depsOf, active, registered, _loadedPlugins, _eventHandlers, _pluginsMutex,
                   _eventHandlersMutex, _lastError, ret, crashed>>

\* ExamplePlugin::Unload: _state = UNLOADED.
PluginUnload(t) ==
    /\ Running(t)
    /\ pc[t] = "Unload_unload"
    /\ lib' = [lib EXCEPT ![loc[t].slot].state = "UNLOADED"]
    /\ pc' = [pc EXCEPT ![t] = "Unload_unregister"]
    /\ UNCHANGED <<statics, depsOf, active, registered, _loadedPlugins, _eventHandlers, _pluginsMutex,
                   _eventHandlersMutex, _lastError, loc, ret, crashed>>

(***************************************************************************)
(* PluginManager::UnloadPlugin.                                            *)
(***************************************************************************)
\* An UnloadPlugin that calls Unload whatever the state.
UnloadFirstStep_NoStop(st) == "Unload_unload"

\* Where UnloadPlugin goes after it found the plugin in state st.
UnloadFirstStep(st) == IF st = "RUNNING" THEN "Stop_enter" ELSE "Unload_unload"

\* UnloadPlugin from the lock to the first call into the plugin.
UnloadPlugin(t) ==
    /\ Running(t)
    /\ pc[t] = "UnloadPlugin"
    /\ LockPlugins(t)
    /\ LET n == loc[t].name
       IN  IF n \notin DOMAIN _loadedPlugins
           THEN /\ _lastError' = "not_found"
                /\ Return(t, Ret("UnloadPlugin", n, FALSE, "not_found"))
                /\ UNCHANGED <<statics, depsOf, active, registered, lib, _loadedPlugins, _eventHandlers,
                               _pluginsMutex, _eventHandlersMutex, crashed>>
           ELSE /\ _pluginsMutex' = t
                /\ loc' = [loc EXCEPT ![t].slot = _loadedPlugins[n]]
                /\ pc' = [pc EXCEPT ![t] = UnloadFirstStep(lib[_loadedPlugins[n]].state)]
                /\ UNCHANGED <<statics, depsOf, active, registered, lib, _loadedPlugins, _eventHandlers,
                               _eventHandlersMutex, _lastError, ret, crashed>>

\* An UnloadPlugin that releases and erases without UnregisterEventHandler.
UnloadPluginFinish_KeepsBinding(t) ==
    /\ Running(t)
    /\ pc[t] = "Unload_unregister"
    /\ _eventHandlersMutex = NoThread
    /\ LET n == loc[t].name
           s == loc[t].slot
           rec == UnloadPluginLibrary(lib[s])
       IN  /\ _eventHandlers' = _eventHandlers
           /\ registered' = registered
           /\ \E out \in ResetOutcomes(s, lib[s]) :
                IF out = "crash"
                THEN /\ crashed' = TRUE
                     /\ lib' = [lib EXCEPT ![s] = [rec EXCEPT !.plugin = TRUE]]
                     /\ UNCHANGED <<statics, depsOf, active, _loadedPlugins, _pluginsMutex,
                                    _eventHandlersMutex, _lastError, pc, loc, ret>>
                ELSE /\ lib' = [lib EXCEPT ![s] = Dispose(rec)]
                     /\ _loadedPlugins' = MapErase(_loadedPlugins, n)
                     /\ _pluginsMutex' = NoThread
                     /\ Return(t, [RetLib("UnloadPlugin", n, TRUE, "ok", rec)
                                      EXCEPT !.stopped = loc[t].stopped])
                     /\ UNCHANGED <<statics, depsOf, active, _eventHandlersMutex, _lastError, crashed>>

\* UnloadPlugin after the plugin's Unload(): UnregisterEventHandler,
\* UnloadPluginLibrary, _loadedPlugins.erase.
UnloadPluginFinish(t) ==
    /\ Running(t)
    /\ pc[t] = "Unload_unregister"
    /\ _eventHandlersMutex = NoThread
    /\ LET n == loc[t].name
           s == loc[t].slot
           rec == UnloadPluginLibrary(lib[s])
       IN  /\ _eventHandlers' = MapErase(_eventHandlers, n)
           /\ registered' = SelectSeq(registered, LAMBDA x : x # n)
           /\ \E out \in ResetOutcomes(s, lib[s]) :
                IF out = "crash"
                THEN /\ crashed' = TRUE
                     /\ lib' = [lib EXCEPT ![s] = [rec EXCEPT !.plugin = TRUE]]
                     /\ UNCHANGED <<statics, depsOf, active, _loadedPlugins, _pluginsMutex,
                                    _eventHandlersMutex, _lastError, pc, loc, ret>>
                ELSE /\ lib' = [lib EXCEPT ![s] = Dispose(rec)]
                     /\ _loadedPlugins' = MapErase(_loadedPlugins, n)
                     /\ _pluginsMutex' = NoThread
                     /\ Return(t, [RetLib("UnloadPlugin", n, TRUE, "ok", rec)
                                      EXCEPT !.stopped = loc[t].stopped])
                     /\ UNCHANGED <<statics, depsOf, active, _eventHandlersMutex, _lastError, crashed>>

(***************************************************************************)
(* PluginManager::InitializePlugin.                                        *)
(***************************************************************************)
\* InitializePlugin holds _pluginsMutex when CheckPluginDependencies calls
\* GetPlugin, which locks _pluginsMutex again.  Locking a std::mutex the
\* thread already owns is undefined: the thread blocks on itself, or lock()
\* throws std::system_error, or (a mutex that does not check) goes through.
RelockOutcomes == {"deadlock", "throw", "proceed"}

\* The state a plugin's Initialize() leaves and the value it returns.  A
\* plugin whose Initialize() fails leaves the _state it last wrote (initFail
\* of its module): ERROR when it sets it on failure, INITIALIZING when, like
\* ExamplePlugin, it writes INITIALIZING first and returns before its last
\* write.  The manager does not touch the state.
PluginInitializeResult(f) ==
    IF Catalog[f].initOk THEN [state |-> "INITIALIZED", ok |-> TRUE]
    ELSE [state |-> Catalog[f].initFail, ok |-> FALSE]

\* InitializePlugin from the lock to the call of plugin->Initialize().
InitializePlugin(t) ==
    /\ Running(t)
    /\ pc[t] = "InitializePlugin"
    /\ LockPlugins(t)
    /\ LET n == loc[t].name
       IN  IF n \notin DOMAIN _loadedPlugins
           THEN /\ Return(t, Ret("InitializePlugin", n, FALSE, "not_found"))
                /\ UNCHANGED <<statics, depsOf, active, registered, lib, _loadedPlugins, _eventHandlers,
                               _pluginsMutex, _eventHandlersMutex, _lastError, crashed>>
           ELSE \E out \in RelockOutcomes :
                CASE out = "deadlock" ->
                        /\ _pluginsMutex' = t
                        /\ pc' = [pc EXCEPT ![t] = "deadlocked"]
                        /\ UNCHANGED <<statics, depsOf, active, registered, lib, _loadedPlugins, _eventHandlers,
                                       _eventHandlersMutex, _lastError, loc, ret, crashed>>
                  [] out = "throw" ->
                        /\ pc' = [pc EXCEPT ![t] = "idle"]
                        /\ loc' = [loc EXCEPT ![t] = NoLoc]
                        /\ ret' = [ret EXCEPT ![t] =
                                      Ret(IF loc[t].outer = "none" THEN "InitializePlugin"
                                          ELSE loc[t].outer, n, FALSE, "system_error")]
                        /\ UNCHANGED <<statics, depsOf, active, registered, lib, _loadedPlugins, _eventHandlers,
                                       _pluginsMutex, _eventHandlersMutex, _lastError, crashed>>
                  [] out = "proceed" ->
                        \E met \in Catalog[lib[_loadedPlugins[n]].file].checkDeps :
                            IF met
                            THEN /\ _pluginsMutex' = t
                                 /\ loc' = [loc EXCEPT ![t].slot = _loadedPlugins[n]]
                                 /\ pc' = [pc EXCEPT ![t] = "Initialize_enter"]
                                 /\ UNCHANGED <<statics, depsOf, active, registered, lib, _loadedPlugins,
                                                _eventHandlers, _eventHandlersMutex,
                                                _lastError, ret, crashed>>
                            ELSE /\ Return(t, Ret("InitializePlugin", n, FALSE, "deps_not_met"))
                                 /\ UNCHANGED <<statics, depsOf, active, registered, lib, _loadedPlugins,
                                                _eventHandlers, _pluginsMutex,
                                                _eventHandlersMutex, _lastError, crashed>>

\* ExamplePlugin::Initialize, first write: _state = INITIALIZING.
PluginInitializeEnter(t) ==
    /\ Running(t)
    /\ pc[t] = "Initialize_enter"
    /\ lib' = [lib EXCEPT ![loc[t].slot].state = "INITIALIZING"]
    /\ pc' = [pc EXCEPT ![t] = "Initialize_exit"]
    /\ UNCHANGED <<statics, depsOf, active, registered, _loadedPlugins, _eventHandlers, _pluginsMutex,
                   _eventHandlersMutex, _lastError, loc, ret, crashed>>

\* An InitializePlugin that goes on to register the handler whatever the
\* plugin's Initialize() returned.
PluginInitializeExit_RegistersAnyway(t) ==
    /\ Running(t)
    /\ pc[t] = "Initialize_exit"
    /\ LET s == loc[t].slot
           f == lib[s].file
           res == PluginInitializeResult(f)
       IN  /\ lib' = [lib EXCEPT ![s].state = res.state]
           /\ IF Catalog[f].hasHandler
              THEN /\ pc' = [pc EXCEPT ![t] = "Initialize_register"]
                   /\ UNCHANGED <<_pluginsMutex, loc, ret>>
              ELSE /\ _pluginsMutex' = NoThread
                   /\ Return(t, Ret("InitializePlugin", loc[t].name, res.ok,
                                    IF res.ok THEN "ok" ELSE "init_failed"))
    /\ UNCHANGED <<statics, depsOf, active, registered, _loadedPlugins, _eventHandlers, _eventHandlersMutex,
                   _lastError, crashed>>

\* ExamplePlugin::Initialize returns; InitializePlugin returns false on
\* failure and goes on to register the handler otherwise.
PluginInitializeExit(t) ==
    /\ Running(t)
    /\ pc[t] = "Initialize_exit"
    /\ LET s == loc[t].slot
           f == lib[s].file
           res == PluginInitializeResult(f)
       IN  /\ lib' = [lib EXCEPT ![s].state = res.state]
           /\ IF res.ok /\ Catalog[f].hasHandler
              THEN /\ pc' = [pc EXCEPT ![t] = "Initialize_register"]
                   /\ UNCHANGED <<_pluginsMutex, loc, ret>>
              ELSE /\ _pluginsMutex' = NoThread
                   /\ Return(t, Ret("InitializePlugin", loc[t].name, res.ok,
                                    IF res.ok THEN "ok" ELSE "init_failed"))
    /\ UNCHANGED <<statics, depsOf, active, registered, _loadedPlugins, _eventHandlers, _eventHandlersMutex,
                   _lastError, crashed>>

\* RegisterEventHandler: _eventHandlers[pluginName] = handler.
RegisterEventHandler(handlers, n, s) == MapPut(handlers, n, s)

\* InitializePlugin registers the plugin's handler and returns true.
InitializeRegister(t) ==
    /\ Running(t)
    /\ pc[t] = "Initialize_register"
    /\ _eventHandlersMutex = NoThread
    /\ _eventHandlers' = RegisterEventHandler(_eventHandlers, loc[t].name, loc[t].slot)
    /\ registered' = IF Contains(registered, loc[t].name) THEN registered
                     ELSE Append(registered, loc[t].name)
    /\ _pluginsMutex' = NoThread
    /\ Return(t, Ret("InitializePlugin", loc[t].name, TRUE, "ok"))
    /\ UNCHANGED <<statics, depsOf, active, lib, _loadedPlugins, _eventHandlersMutex, _lastError,
                   crashed>>

(***************************************************************************)
(* The dependency resolver: GetPluginLoadOrder, ResolveDependencies.       *)
(***************************************************************************)
\* A recursion of ResolveDependencies deeper than this has a plugin twice on
\* its stack and never returns: it ends when the stack is exhausted.
RecursionLimit == Cardinality(DOMAIN _loadedPlugins) + 1

RECURSIVE ResolveDependencies(_, _, _)
RECURSIVE ResolveEach(_, _, _, _)

\* The loop of ResolveDependencies over dependencies[i..]: [ok, order, overflow].
ResolveEach(deps, i, loadOrder, depth) ==
    IF i > Len(deps) THEN [ok |-> TRUE, order |-> loadOrder, overflow |-> FALSE]
    ELSE IF Contains(loadOrder, deps[i]) THEN ResolveEach(deps, i + 1, loadOrder, depth)
    ELSE LET r == ResolveDependencies(deps[i], loadOrder, depth + 1)
         IN  IF r.overflow \/ ~r.ok THEN r
             ELSE ResolveEach(deps, i + 1, r.order, depth)

\* ResolveDependencies(pluginName, loadOrder) at recursion depth `depth`.
ResolveDependencies(pluginName, loadOrder, depth) ==
    IF depth > RecursionLimit
    THEN [ok |-> FALSE, order |-> loadOrder, overflow |-> TRUE]
    ELSE IF pluginName \notin DOMAIN _loadedPlugins
    THEN [ok |-> FALSE, order |-> loadOrder, overflow |-> FALSE]
    ELSE LET deps == GetDependencies(lib[_loadedPlugins[pluginName]].file)
             r == ResolveEach(deps, 1, loadOrder, depth)
         IN  IF r.overflow \/ ~r.ok THEN r
             ELSE [ok |-> TRUE, order |-> Append(r.order, pluginName), overflow |-> FALSE]

RECURSIVE LoadOrderFrom(_, _, _)

\* The loop of GetPluginLoadOrder over pluginNames[i..]: [order, overflow].
LoadOrderFrom(pluginNames, i, loadOrder) ==
    IF i > Len(pluginNames) THEN [order |-> loadOrder, overflow |-> FALSE]
    ELSE IF Contains(loadOrder, pluginNames[i])
    THEN LoadOrderFrom(pluginNames, i + 1, loadOrder)
    ELSE LET r == ResolveDependencies(pluginNames[i], loadOrder, 1)
         IN  IF r.overflow THEN [order |-> r.order, overflow |-> TRUE]
             ELSE LoadOrderFrom(pluginNames, i + 1, r.order)

\* A GetPluginLoadOrder that returns the names as it got them.
GetPluginLoadOrder_Unresolved(pluginNames) == [order |-> pluginNames, overflow |-> FALSE]

\* GetPluginLoadOrder when GetLoadedPluginNames returned pluginNames.
GetPluginLoadOrder(pluginNames) == LoadOrderFrom(pluginNames, 1, <<>>)

\* GetLoadedPluginNames: the keys of the unordered_map, in some order.
GetLoadedPluginNames == Perms(DOMAIN _loadedPlugins)

(***************************************************************************)
(* The bulk operations.                                                    *)
(***************************************************************************)
\* InitializeAllPlugins computes the load order (each GetLoadedPluginNames
\* and GetPlugin call in it takes and drops _pluginsMutex).
InitializeAllPlugins(t) ==
    /\ Running(t)
    /\ pc[t] = "InitializeAllPlugins"
    /\ LockPlugins(t)
    /\ \E pluginNames \in GetLoadedPluginNames :
          LET r == GetPluginLoadOrder(pluginNames)
          IN  IF r.overflow
              THEN /\ crashed' = TRUE
                   /\ UNCHANGED <<pc, loc>>
              ELSE /\ pc' = [pc EXCEPT ![t] = "InitializeAll_loop"]
                   /\ loc' = [loc EXCEPT ![t].loadOrder = r.order,
                                          ![t].i = 1,
                                          ![t].outer = "InitializeAllPlugins"]
                   /\ UNCHANGED crashed
    /\ UNCHANGED <<statics, depsOf, active, registered, lib, _loadedPlugins, _eventHandlers, _pluginsMutex,
                   _eventHandlersMutex, _lastError, ret>>

\* The loop of InitializeAllPlugins: InitializePlugin(next name), or the end.
InitializeAllNext(t) ==
    /\ Running(t)
    /\ pc[t] = "InitializeAll_loop"
    /\ IF loc[t].i > Len(loc[t].loadOrder)
       THEN /\ pc' = [pc EXCEPT ![t] = "idle"]
            /\ loc' = [loc EXCEPT ![t] = NoLoc]
            /\ ret' = [ret EXCEPT ![t] = Ret("InitializeAllPlugins", "", TRUE, "ok")]
       ELSE /\ pc' = [pc EXCEPT ![t] = "InitializePlugin"]
            /\ loc' = [loc EXCEPT ![t].op = "InitializePlugin",
                                   ![t].name = loc[t].loadOrder[loc[t].i],
                                   ![t].i = loc[t].i + 1]
            /\ UNCHANGED ret
    /\ UNCHANGED <<statics, depsOf, active, registered, lib, _loadedPlugins, _eventHandlers, _pluginsMutex,
                   _eventHandlersMutex, _lastError, crashed>>

\* A StartAllPlugins that calls Start() on every plugin of the table.
StartAll_AnyState(l) ==
    [s \in Slots |->
        IF s \in Range(_loadedPlugins) THEN [l[s] EXCEPT !.state = "RUNNING"] ELSE l[s]]

\* The states StartAllPlugins leaves: Start() on every INITIALIZED plugin.
StartAll(l) ==
    [s \in Slots |->
        IF s \in Range(_loadedPlugins) /\ l[s].state = "INITIALIZED"
        THEN [l[s] EXCEPT !.state = "RUNNING"]
        ELSE l[s]]

\* StartAllPlugins.
StartAllPlugins(t) ==
    /\ Running(t)
    /\ pc[t] = "StartAllPlugins"
    /\ LockPlugins(t)
    /\ lib' = StartAll(lib)
    /\ Return(t, Ret("StartAllPlugins", "", TRUE, "ok"))
    /\ UNCHANGED <<statics, depsOf, active, registered, _loadedPlugins, _eventHandlers, _pluginsMutex,
                   _eventHandlersMutex, _lastError, crashed>>

\* StopAllPlugins takes the lock and starts its walk over the table.
StopAllPlugins(t) ==
    /\ Running(t)
    /\ pc[t] = "StopAllPlugins"
    /\ LockPlugins(t)
    /\ _pluginsMutex' = t
    /\ pc' = [pc EXCEPT ![t] = "StopAll_loop"]
    /\ loc' = [loc EXCEPT ![t].names = DOMAIN _loadedPlugins]
    /\ UNCHANGED <<statics, depsOf, active, registered, lib, _loadedPlugins, _eventHandlers,
                   _eventHandlersMutex, _lastError, ret, crashed>>

\* A walk of StopAllPlugins that stops every plugin, whatever its state.
StopCandidates_AnyState(names) == names

\* The plugins the walk of StopAllPlugins still has to stop.
StopCandidates(names) == {n \in names : lib[_loadedPlugins[n]].state = "RUNNING"}

\* The walk of StopAllPlugins: the next RUNNING plugin is stopped; with none
\* left the lock is dropped.
StopAllNext(t) ==
    /\ Running(t)
    /\ pc[t] = "StopAll_loop"
    /\ IF StopCandidates(loc[t].names) = {}
       THEN /\ _pluginsMutex' = NoThread
            /\ Return(t, Ret("StopAllPlugins", "", TRUE, "ok"))
       ELSE /\ \E n \in StopCandidates(loc[t].names) :
                  loc' = [loc EXCEPT ![t].names = @ \ {n},
                                     ![t].name = n,
                                     ![t].slot = _loadedPlugins[n]]
            /\ pc' = [pc EXCEPT ![t] = "Stop_enter"]
            /\ UNCHANGED <<_pluginsMutex, ret>>
    /\ UNCHANGED <<statics, depsOf, active, registered, lib, _loadedPlugins, _eventHandlers,
                   _eventHandlersMutex, _lastError, crashed>>

\* An UnloadAllPlugins that leaves the RUNNING plugins out of its walk.
UnloadAllPlugins_SkipsRunning(t) ==
    /\ Running(t)
    /\ pc[t] = "UnloadAllPlugins"
    /\ LockPlugins(t)
    /\ pc' = [pc EXCEPT ![t] = "UnloadAll_loop"]
    /\ loc' = [loc EXCEPT ![t].names = {n \in DOMAIN _loadedPlugins :
                                          lib[_loadedPlugins[n]].state # "RUNNING"},
                           ![t].outer = "UnloadAllPlugins"]
    /\ UNCHANGED <<statics, depsOf, active, registered, lib, _loadedPlugins, _eventHandlers, _pluginsMutex,
                   _eventHandlersMutex, _lastError, ret, crashed>>

\* UnloadAllPlugins snapshots the names (GetLoadedPluginNames).
UnloadAllPlugins(t) ==
    /\ Running(t)
    /\ pc[t] = "UnloadAllPlugins"
    /\ LockPlugins(t)
    /\ pc' = [pc EXCEPT ![t] = "UnloadAll_loop"]
    /\ loc' = [loc EXCEPT ![t].names = DOMAIN _loadedPlugins,
                           ![t].outer = "UnloadAllPlugins"]
    /\ UNCHANGED <<statics, depsOf, active, registered, lib, _loadedPlugins, _eventHandlers, _pluginsMutex,
                   _eventHandlersMutex, _lastError, ret, crashed>>

\* A loop of UnloadAllPlugins that takes its next name from the table as it
\* is now, and ends when the table is empty.
UnloadAllNext_LiveTable(t) ==
    /\ Running(t)
    /\ pc[t] = "UnloadAll_loop"
    /\ IF DOMAIN _loadedPlugins = {}
       THEN /\ pc' = [pc EXCEPT ![t] = "idle"]
            /\ loc' = [loc EXCEPT ![t] = NoLoc]
            /\ ret' = [ret EXCEPT ![t] = Ret("UnloadAllPlugins", "", TRUE, "ok")]
       ELSE /\ \E n \in DOMAIN _loadedPlugins :
                  loc' = [loc EXCEPT ![t].op = "UnloadPlugin",
                                     ![t].name = n,
                                     ![t].names = @ \ {n}]
            /\ pc' = [pc EXCEPT ![t] = "UnloadPlugin"]
            /\ UNCHANGED ret
    /\ UNCHANGED <<statics, depsOf, active, registered, lib, _loadedPlugins, _eventHandlers, _pluginsMutex,
                   _eventHandlersMutex, _lastError, crashed>>

\* The loop of UnloadAllPlugins: UnloadPlugin(next snapshotted name), or the end.
UnloadAllNext(t) ==
    /\ Running(t)
    /\ pc[t] = "UnloadAll_loop"
    /\ IF loc[t].names = {}
       THEN /\ pc' = [pc EXCEPT ![t] = "idle"]
            /\ loc' = [loc EXCEPT ![t] = NoLoc]
            /\ ret' = [ret EXCEPT ![t] = Ret("UnloadAllPlugins", "", TRUE, "ok")]
       ELSE /\ \E n \in loc[t].names :
                  loc' = [loc EXCEPT ![t].op = "UnloadPlugin",
                                     ![t].name = n,
                                     ![t].names = @ \ {n}]
            /\ pc' = [pc EXCEPT ![t] = "UnloadPlugin"]
            /\ UNCHANGED ret
    /\ UNCHANGED <<statics, depsOf, active, registered, lib, _loadedPlugins, _eventHandlers, _pluginsMutex,
                   _eventHandlersMutex, _lastError, crashed>>

(***************************************************************************)
(* Event dispatch: GetEventHandlersByPriority and the On... forwarders.    *)
(***************************************************************************)
\* The LoadedPlugin of slot s is gone, or its instance is: a pointer to the
\* plugin or to its handler dangles.
Dangling(s) == lib[s] = NoLib \/ ~lib[s].plugin

\* What reading through a dangling plugin pointer can give.
DanglingReads == {"crash", "skip", "take"}

\* What a handler's event method can do when called.
HandlerOutcomes == {"ok", "throw"}

\* What calling through a dangling handler pointer can give.
DanglingCalls == {"crash", "ok"}

\* std::sort by a.first > b.first: the results it can give are the
\* arrangements of the vector with priorities that never rise; the order of
\* elements of equal priority is unspecified.
SortByPriority(v) ==
    {p \in Perms(SeqToSet(v)) :
        \A i, j \in 1..Len(p) : i < j => p[i].priority >= p[j].priority}

\* The names of a vector of gathered handlers.
NamesOf(v) == [i \in 1..Len(v) |-> v[i].name]

\* GetEventHandlersByPriority takes _eventHandlersMutex and starts to walk
\* _eventHandlers, an unordered_map: in some order of its keys.
GetEventHandlersByPriority(t) ==
    /\ Running(t)
    /\ pc[t] \in DispatchEvents
    /\ _eventHandlersMutex = NoThread
    /\ _eventHandlersMutex' = t
    /\ \E order \in Perms(DOMAIN _eventHandlers) :
          loc' = [loc EXCEPT ![t].pending = order]
    /\ pc' = [pc EXCEPT ![t] = "Gather_loop"]
    /\ UNCHANGED <<statics, depsOf, active, registered, lib, _loadedPlugins, _eventHandlers,
                   _pluginsMutex, _lastError, ret, crashed>>

\* The walk calls GetPlugin(pair.first), which takes and drops _pluginsMutex.
\* A name that is not loaded is passed over.
GatherGetPlugin(t) ==
    /\ Running(t)
    /\ pc[t] = "Gather_loop"
    /\ loc[t].pending # <<>>
    /\ LockPlugins(t)
    /\ LET n == Head(loc[t].pending)
       IN  IF n \in DOMAIN _loadedPlugins
           THEN /\ loc' = [loc EXCEPT ![t].slot = _loadedPlugins[n]]
                /\ pc' = [pc EXCEPT ![t] = "Gather_state"]
           ELSE /\ loc' = [loc EXCEPT ![t].pending = Tail(@)]
                /\ pc' = pc
    /\ UNCHANGED <<statics, depsOf, active, registered, lib, _loadedPlugins, _eventHandlers,
                   _pluginsMutex, _eventHandlersMutex, _lastError, ret, crashed>>

\* A walk that keeps the handler of every loaded plugin, RUNNING or not.
GatherState_AnyState(t) ==
    /\ Running(t)
    /\ pc[t] = "Gather_state"
    /\ LET n == Head(loc[t].pending)
           s == loc[t].slot
           h == [name |-> n, slot |-> _eventHandlers[n],
                 priority |-> Catalog[s[1]].priority]
       IN  /\ crashed' = crashed
           /\ pc' = [pc EXCEPT ![t] = "Gather_loop"]
           /\ loc' = [loc EXCEPT ![t].pending = Tail(@), ![t].gathered = Append(@, h)]
    /\ UNCHANGED <<statics, depsOf, active, registered, lib, _loadedPlugins, _eventHandlers,
                   _pluginsMutex, _eventHandlersMutex, _lastError, ret>>

\* The walk reads plugin->GetState() and GetInfo().priority, _pluginsMutex
\* no longer held, and keeps the handler of a RUNNING plugin.
GatherState(t) ==
    /\ Running(t)
    /\ pc[t] = "Gather_state"
    /\ LET n == Head(loc[t].pending)
           s == loc[t].slot
           h == [name |-> n, slot |-> _eventHandlers[n],
                 priority |-> Catalog[s[1]].priority]
           take == [loc EXCEPT ![t].pending = Tail(@), ![t].gathered = Append(@, h)]
           skip == [loc EXCEPT ![t].pending = Tail(@)]
       IN  \E out \in (IF Dangling(s) THEN DanglingReads ELSE {"read"}) :
               IF out = "crash"
               THEN /\ crashed' = TRUE
                    /\ UNCHANGED <<pc, loc>>
               ELSE /\ crashed' = crashed
                    /\ pc' = [pc EXCEPT ![t] = "Gather_loop"]
                    /\ loc' = IF out = "take" \/ (out = "read" /\ lib[s].state = "RUNNING")
                              THEN take ELSE skip
    /\ UNCHANGED <<statics, depsOf, active, registered, lib, _loadedPlugins, _eventHandlers,
                   _pluginsMutex, _eventHandlersMutex, _lastError, ret>>

\* The walk is over: the vector is sorted, _eventHandlersMutex dropped and
\* the handlers returned to the forwarder.
GatherSort(t) ==
    /\ Running(t)
    /\ pc[t] = "Gather_loop"
    /\ loc[t].pending = <<>>
    /\ \E v \in SortByPriority(loc[t].gathered) :
          loc' = [loc EXCEPT ![t].gathered = v, ![t].handlers = v]
    /\ _eventHandlersMutex' = NoThread
    /\ pc' = [pc EXCEPT ![t] = "Invoke_loop"]
    /\ UNCHANGED <<statics, depsOf, active, registered, lib, _loadedPlugins, _eventHandlers,
                   _pluginsMutex, _lastError, ret, crashed>>

\* What a forwarder returns: the handlers it was given and those it called.
DispatchRet(t, ok, err, invoked) ==
    [Ret(loc[t].op, "", ok, err) EXCEPT !.handlers = NamesOf(loc[t].gathered),
                                        !.invoked = invoked]

\* OnPlayerLogin, OnPlayerLogout, OnWorldUpdate call the next handler; no
\* lock is held and nothing catches what the handler throws.
HandlerCall(t) ==
    /\ Running(t)
    /\ pc[t] = "Invoke_loop"
    /\ loc[t].op \in NotificationEvents
    /\ loc[t].handlers # <<>>
    /\ LET h == Head(loc[t].handlers)
           invoked == Append(loc[t].invoked, h.name)
       IN  \E out \in (IF Dangling(h.slot) THEN DanglingCalls ELSE HandlerOutcomes) :
               CASE out = "crash" ->
                       /\ crashed' = TRUE
                       /\ UNCHANGED <<pc, loc, ret>>
                 [] out = "ok" ->
                       /\ loc' = [loc EXCEPT ![t].handlers = Tail(@),
                                             ![t].invoked = invoked]
                       /\ UNCHANGED <<pc, ret, crashed>>
                 [] out = "throw" ->
                       /\ Return(t, DispatchRet(t, FALSE, "exception", invoked))
                       /\ UNCHANGED crashed
    /\ UNCHANGED <<statics, depsOf, active, registered, lib, _loadedPlugins, _eventHandlers,
                   _pluginsMutex, _eventHandlersMutex, _lastError>>

\* ExampleEventHandler::OnPlayerLogin calls TrackPlayerLogin, whose
\* ++_totalLogins is a plain load, add and store of a uint32, no lock held
\* and no atomic used: here the load.
TrackPlayerLogin_Load(t) ==
    /\ Running(t)
    /\ pc[t] = "Invoke_loop"
    /\ loc[t].op = "OnPlayerLogin"
    /\ loc[t].handlers # <<>>
    /\ ~Dangling(Head(loc[t].handlers).slot)
    /\ loc' = [loc EXCEPT ![t].tmp = lib[Head(loc[t].handlers).slot]._totalLogins]
    /\ pc' = [pc EXCEPT ![t] = "Track_store"]
    /\ UNCHANGED <<statics, depsOf, active, registered, lib, _loadedPlugins, _eventHandlers,
                   _pluginsMutex, _eventHandlersMutex, _lastError, ret, crashed>>

\* The store of ++_totalLogins: the value loaded, plus one.  The handler
\* returns to the forwarder's loop.
TrackPlayerLogin(t) ==
    /\ Running(t)
    /\ pc[t] = "Track_store"
    /\ LET h == Head(loc[t].handlers)
       IN  /\ lib' = [lib EXCEPT ![h.slot]._totalLogins = loc[t].tmp + 1,
                                 ![h.slot].logins = @ + 1]
           /\ loc' = [loc EXCEPT ![t].handlers = Tail(@),
                                 ![t].invoked = Append(@, h.name),
                                 ![t].tmp = 0]
    /\ pc' = [pc EXCEPT ![t] = "Invoke_loop"]
    /\ UNCHANGED <<statics, depsOf, active, registered, _loadedPlugins, _eventHandlers,
                   _pluginsMutex, _eventHandlersMutex, _lastError, ret, crashed>>

\* The forwarder of a notification returns after the last handler.
DispatchReturn(t) ==
    /\ Running(t)
    /\ pc[t] = "Invoke_loop"
    /\ loc[t].op \in NotificationEvents
    /\ loc[t].handlers = <<>>
    /\ Return(t, DispatchRet(t, TRUE, "ok", loc[t].invoked))
    /\ UNCHANGED <<statics, depsOf, active, registered, lib, _loadedPlugins, _eventHandlers,
                   _pluginsMutex, _eventHandlersMutex, _lastError, crashed>>

\* OnPacketReceive, OnPacketSend (declared, not defined in the sources): the
\* next handler answers whether the packet may pass; the first false ends
\* the dispatch with false.
PacketHandlerCall(t) ==
    /\ Running(t)
    /\ pc[t] = "Invoke_loop"
    /\ loc[t].op \in FilterEvents
    /\ loc[t].handlers # <<>>
    /\ LET h == Head(loc[t].handlers)
           invoked == Append(loc[t].invoked, h.name)
       IN  \E allow \in BOOLEAN :
               IF allow
               THEN /\ loc' = [loc EXCEPT ![t].handlers = Tail(@), ![t].invoked = invoked]
                    /\ UNCHANGED <<pc, ret>>
               ELSE Return(t, DispatchRet(t, FALSE, "rejected", invoked))
    /\ UNCHANGED <<statics, depsOf, active, registered, lib, _loadedPlugins, _eventHandlers,
                   _pluginsMutex, _eventHandlersMutex, _lastError, crashed>>

\* Every handler let the packet pass: the dispatch returns true.
PacketReturn(t) ==
    /\ Running(t)
    /\ pc[t] = "Invoke_loop"
    /\ loc[t].op \in FilterEvents
    /\ loc[t].handlers = <<>>
    /\ Return(t, DispatchRet(t, TRUE, "ok", loc[t].invoked))
    /\ UNCHANGED <<statics, depsOf, active, registered, lib, _loadedPlugins, _eventHandlers,
                   _pluginsMutex, _eventHandlersMutex, _lastError, crashed>>

\* The steps of a dispatch.
DispatchStep(t) ==
    \/ GetEventHandlersByPriority(t)
    \/ GatherGetPlugin(t)
    \/ GatherState(t)
    \/ GatherSort(t)
    \/ HandlerCall(t)
    \/ DispatchReturn(t)
    \/ PacketHandlerCall(t)
    \/ PacketReturn(t)

(***************************************************************************)
(* The specifications.                                                     *)
(***************************************************************************)
\* What the host may call.
SpecFiles == Files \ {"c2.so", "c3.so"}

HostCall(t) ==
    \/ \E f \in SpecFiles : Call(t, "LoadPlugin", "", f)
    \/ \E n \in PluginNames : Call(t, "UnloadPlugin", n, "none")
    \/ \E n \in PluginNames : Call(t, "InitializePlugin", n, "none")
    \/ Call(t, "InitializeAllPlugins", "", "none")
    \/ Call(t, "StartAllPlugins", "", "none")
    \/ Call(t, "StopAllPlugins", "", "none")
    \/ Call(t, "UnloadAllPlugins", "", "none")

Step(t) ==
    \/ HostCall(t)
    \/ LoadPlugin(t)
    \/ PluginLoadEnter(t)
    \/ PluginLoadExit(t)
    \/ UnloadPlugin(t)
    \/ PluginStopEnter(t)
    \/ PluginStopExit(t)
    \/ PluginUnload(t)
    \/ UnloadPluginFinish(t)
    \/ InitializePlugin(t)
    \/ PluginInitializeEnter(t)
    \/ PluginInitializeExit(t)
    \/ InitializeRegister(t)
    \/ InitializeAllPlugins(t)
    \/ InitializeAllNext(t)
    \/ StartAllPlugins(t)
    \/ StopAllPlugins(t)
    \/ StopAllNext(t)
    \/ UnloadAllPlugins(t)
    \/ UnloadAllNext(t)

Next == \E t \in Threads : Step(t)

\* The dependency lists of a run: a chain (B on A, C on B and A), or a cycle
\* between A and B with C depending on a name that is never loaded.
SampleGraphs ==
    {[A |-> <<>>, B |-> <<"A">>, C |-> <<"B", "A">>],
     [A |-> <<"B">>, B |-> <<"A">>, C |-> <<MissingName>>]}

\* One host thread.
Init ==
    /\ InitManager
    /\ active = {"t1"}
    /\ depsOf \in SampleGraphs

Spec == Init /\ [][Next]_vars

(***************************************************************************)
(* The resolver over every dependency graph: one host thread loads the     *)
(* plugins A, B and C and initializes them all.  C declares any list of at *)
(* most MaxDeps names, A and B any list of at most one.                    *)
(***************************************************************************)
OrderFiles == {"a.so", "b.so", "c.so"}

HostCallOrder(t) ==
    \/ \E f \in OrderFiles : Call(t, "LoadPlugin", "", f)
    \/ Call(t, "InitializeAllPlugins", "", "none")

NextOrder ==
    \E t \in Threads :
        \/ HostCallOrder(t)
        \/ LoadPlugin(t)
        \/ PluginLoadEnter(t)
        \/ PluginLoadExit(t)
        \/ InitializeAllPlugins(t)
        \/ InitializeAllNext(t)
        \/ InitializePlugin(t)
        \/ PluginInitializeEnter(t)
        \/ PluginInitializeExit(t)
        \/ InitializeRegister(t)

InitOrder ==
    /\ InitManager
    /\ active = {"t1"}
    /\ depsOf \in {g \in [PluginNames -> DepLists] : Len(g["A"]) <= 1 /\ Len(g["B"]) <= 1}

SpecOrder == InitOrder /\ [][NextOrder]_vars

(***************************************************************************)
(* Two host threads that load and unload concurrently.                     *)
(***************************************************************************)
ConcFiles == {"a.so", "a2.so", "b.so", "nover.so"}

ConcNames == {"A", "B"}

HostCallConc(t) ==
    \/ \E f \in ConcFiles : Call(t, "LoadPlugin", "", f)
    \/ \E n \in ConcNames : Call(t, "UnloadPlugin", n, "none")
    \/ Call(t, "StartAllPlugins", "", "none")
    \/ \E n \in ConcNames : Call(t, "InitializePlugin", n, "none")
    \/ Call(t, "UnloadAllPlugins", "", "none")

NextConc ==
    \E t \in Threads :
        \/ HostCallConc(t)
        \/ LoadPlugin(t)
        \/ PluginLoadEnter(t)
        \/ PluginLoadExit(t)
        \/ UnloadPlugin(t)
        \/ PluginStopEnter(t)
        \/ PluginStopExit(t)
        \/ PluginUnload(t)
        \/ UnloadPluginFinish(t)
        \/ InitializePlugin(t)
        \/ PluginInitializeEnter(t)
        \/ PluginInitializeExit(t)
        \/ InitializeRegister(t)
        \/ StartAllPlugins(t)
        \/ UnloadAllPlugins(t)
        \/ UnloadAllNext(t)

InitConc ==
    /\ InitManager
    /\ active = Threads
    /\ depsOf = [n \in PluginNames |-> <<>>]

SpecConc == InitConc /\ [][NextConc]_vars

\* Dispatch: one thread loads, initializes, starts, stops and unloads three
\* plugins of priorities HIGH (A), NORMAL (B), HIGH (C) and dispatches events.
DispatchFiles == {"a.so", "b.so", "c2.so"}

HostCallDispatch(t) ==
    \/ \E f \in DispatchFiles : Call(t, "LoadPlugin", "", f)
    \/ \E n \in PluginNames : Call(t, "InitializePlugin", n, "none")
    \/ \E n \in PluginNames : Call(t, "UnloadPlugin", n, "none")
    \/ Call(t, "StartAllPlugins", "", "none")
    \/ Call(t, "StopAllPlugins", "", "none")
    \/ \E ev \in DispatchEvents : Call(t, ev, "", "none")

NextDispatch ==
    \E t \in Threads :
        \/ HostCallDispatch(t)
        \/ LoadPlugin(t)
        \/ PluginLoadEnter(t)
        \/ PluginLoadExit(t)
        \/ UnloadPlugin(t)
        \/ PluginStopEnter(t)
        \/ PluginStopExit(t)
        \/ PluginUnload(t)
        \/ UnloadPluginFinish(t)
        \/ InitializePlugin(t)
        \/ PluginInitializeEnter(t)
        \/ PluginInitializeExit(t)
        \/ InitializeRegister(t)
        \/ StartAllPlugins(t)
        \/ StopAllPlugins(t)
        \/ StopAllNext(t)
        \/ DispatchStep(t)

InitDispatch ==
    /\ InitManager
    /\ active = {"t1"}
    /\ depsOf = [n \in PluginNames |-> <<>>]

SpecDispatch == InitDispatch /\ [][NextDispatch]_vars

\* Locks: thread t1 loads, initializes, starts and unloads plugin A while
\* thread t2 dispatches OnPlayerLogin.
HostCallLock(t) ==
    \/ t = "t1" /\ Call(t, "LoadPlugin", "", "a.so")
    \/ t = "t1" /\ Call(t, "InitializePlugin", "A", "none")
    \/ t = "t1" /\ Call(t, "StartAllPlugins", "", "none")
    \/ t = "t1" /\ Call(t, "UnloadPlugin", "A", "none")
    \/ t = "t2" /\ Call(t, "OnPlayerLogin", "", "none")

NextLock ==
    \E t \in Threads :
        \/ HostCallLock(t)
        \/ LoadPlugin(t)
        \/ PluginLoadEnter(t)
        \/ PluginLoadExit(t)
        \/ UnloadPlugin(t)
        \/ PluginStopEnter(t)
        \/ PluginStopExit(t)
        \/ PluginUnload(t)
        \/ UnloadPluginFinish(t)
        \/ InitializePlugin(t)
        \/ PluginInitializeEnter(t)
        \/ PluginInitializeExit(t)
        \/ InitializeRegister(t)
        \/ StartAllPlugins(t)
        \/ GetEventHandlersByPriority(t)
        \/ GatherGetPlugin(t)
        \/ GatherState(t)
        \/ GatherSort(t)
        \/ HandlerCall(t)
        \/ DispatchReturn(t)

InitLock ==
    /\ InitManager
    /\ active = Threads
    /\ depsOf = [n \in PluginNames |-> <<>>]

SpecLock == InitLock /\ [][NextLock]_vars

\* Initialization that fails: one thread loads, initializes and unloads the
\* plugins A (Initialize succeeds) and C (Initialize fails, leaving ERROR for
\* c.so and INITIALIZING for c3.so).
InitFiles == {"a.so", "c.so", "c3.so"}

InitNames == {"A", "C"}

HostCallInit(t) ==
    \/ \E f \in InitFiles : Call(t, "LoadPlugin", "", f)
    \/ \E n \in InitNames : Call(t, "InitializePlugin", n, "none")
    \/ \E n \in InitNames : Call(t, "UnloadPlugin", n, "none")

NextInit ==
    \E t \in Threads :
        \/ HostCallInit(t)
        \/ LoadPlugin(t)
        \/ PluginLoadEnter(t)
        \/ PluginLoadExit(t)
        \/ UnloadPlugin(t)
        \/ PluginUnload(t)
        \/ UnloadPluginFinish(t)
        \/ InitializePlugin(t)
        \/ PluginInitializeEnter(t)
        \/ PluginInitializeExit(t)
        \/ InitializeRegister(t)

InitInit ==
    /\ InitManager
    /\ active = {"t1"}
    /\ depsOf = [n \in PluginNames |-> <<>>]

SpecInit == InitInit /\ [][NextInit]_vars

\* Walks: thread t1 calls UnloadAllPlugins and StopAllPlugins while thread t2
\* loads, initializes, starts and unloads the plugins A and B.
SnapFiles == {"a.so", "b.so"}

HostCallSnap(t) ==
    \/ t = "t1" /\ Call(t, "UnloadAllPlugins", "", "none")
    \/ t = "t1" /\ Call(t, "StopAllPlugins", "", "none")
    \/ t = "t2" /\ \E f \in SnapFiles : Call(t, "LoadPlugin", "", f)
    \/ t = "t2" /\ \E n \in ConcNames : Call(t, "UnloadPlugin", n, "none")
    \/ t = "t2" /\ Call(t, "InitializePlugin", "A", "none")
    \/ t = "t2" /\ Call(t, "StartAllPlugins", "", "none")

NextSnap ==
    \E t \in Threads :
        \/ HostCallSnap(t)
        \/ LoadPlugin(t)
        \/ PluginLoadEnter(t)
        \/ PluginLoadExit(t)
        \/ UnloadPlugin(t)
        \/ PluginStopEnter(t)
        \/ PluginStopExit(t)
        \/ PluginUnload(t)
        \/ UnloadPluginFinish(t)
        \/ InitializePlugin(t)
        \/ PluginInitializeEnter(t)
        \/ PluginInitializeExit(t)
        \/ InitializeRegister(t)
        \/ StartAllPlugins(t)
        \/ StopAllPlugins(t)
        \/ StopAllNext(t)
        \/ UnloadAllPlugins(t)
        \/ UnloadAllNext(t)

InitSnap ==
    /\ InitManager
    /\ active = Threads
    /\ depsOf = [n \in PluginNames |-> <<>>]

SpecSnap == InitSnap /\ [][NextSnap]_vars

\* Counters: thread t1 loads, initializes and starts plugin A, written like
\* ExamplePlugin, and both threads dispatch OnPlayerLogin to it.
HostCallCount(t) ==
    \/ t = "t1" /\ Call(t, "LoadPlugin", "", "a.so")
    \/ t = "t1" /\ Call(t, "InitializePlugin", "A", "none")
    \/ t = "t1" /\ Call(t, "StartAllPlugins", "", "none")
    \/ /\ \A s \in Slots : lib[s] # NoLib => lib[s].logins < MaxLogins
       /\ Call(t, "OnPlayerLogin", "", "none")

NextCount ==
    \E t \in Threads :
        \/ HostCallCount(t)
        \/ LoadPlugin(t)
        \/ PluginLoadEnter(t)
        \/ PluginLoadExit(t)
        \/ InitializePlugin(t)
        \/ PluginInitializeEnter(t)
        \/ PluginInitializeExit(t)
        \/ InitializeRegister(t)
        \/ StartAllPlugins(t)
        \/ GetEventHandlersByPriority(t)
        \/ GatherGetPlugin(t)
        \/ GatherState(t)
        \/ GatherSort(t)
        \/ TrackPlayerLogin_Load(t)
        \/ TrackPlayerLogin(t)
        \/ DispatchReturn(t)

InitCount ==
    /\ InitManager
    /\ active = Threads
    /\ depsOf = [n \in PluginNames |-> <<>>]

SpecCount == InitCount /\ [][NextCount]_vars

\* Bindings: both threads initialize and unload plugins A and B, which
\* thread t1 loads.
BindFiles == {"a.so", "b.so"}

BindNames == {"A", "B"}

HostCallBind(t) ==
    \/ t = "t1" /\ \E f \in BindFiles : Call(t, "LoadPlugin", "", f)
    \/ \E n \in BindNames : Call(t, "InitializePlugin", n, "none")
    \/ \E n \in BindNames : Call(t, "UnloadPlugin", n, "none")

NextBind ==
    \E t \in Threads :
        \/ HostCallBind(t)
        \/ LoadPlugin(t)
        \/ PluginLoadEnter(t)
        \/ PluginLoadExit(t)
        \/ UnloadPlugin(t)
        \/ PluginUnload(t)
        \/ UnloadPluginFinish(t)
        \/ InitializePlugin(t)
        \/ PluginInitializeEnter(t)
        \/ PluginInitializeExit(t)
        \/ InitializeRegister(t)

InitBind ==
    /\ InitManager
    /\ active = Threads
    /\ depsOf = [n \in PluginNames |-> <<>>]

SpecBind == InitBind /\ [][NextBind]_vars

\* Teardown: one host thread brings plugins A, B and C (whose Initialize()
\* fails) to any lifecycle state and calls UnloadAllPlugins, as the
\* destructor does, on a table that holds a plugin.
TeardownFiles == {"a.so", "b.so", "c.so"}

HostCallTeardown(t) ==
    \/ \E f \in TeardownFiles : Call(t, "LoadPlugin", "", f)
    \/ \E n \in PluginNames : Call(t, "InitializePlugin", n, "none")
    \/ Call(t, "StartAllPlugins", "", "none")
    \/ Call(t, "StopAllPlugins", "", "none")
    \/ DOMAIN _loadedPlugins # {} /\ Call(t, "UnloadAllPlugins", "", "none")

NextTeardown ==
    \E t \in Threads :
        \/ HostCallTeardown(t)
        \/ LoadPlugin(t)
        \/ PluginLoadEnter(t)
        \/ PluginLoadExit(t)
        \/ UnloadPlugin(t)
        \/ PluginStopEnter(t)
        \/ PluginStopExit(t)
        \/ PluginUnload(t)
        \/ UnloadPluginFinish(t)
        \/ InitializePlugin(t)
        \/ PluginInitializeEnter(t)
        \/ PluginInitializeExit(t)
        \/ InitializeRegister(t)
        \/ StartAllPlugins(t)
        \/ StopAllPlugins(t)
        \/ StopAllNext(t)
        \/ UnloadAllPlugins(t)
        \/ UnloadAllNext(t)

InitTeardown ==
    /\ InitManager
    /\ active = {"t1"}
    /\ depsOf = [n \in PluginNames |-> <<>>]

SpecTeardown == InitTeardown /\ [][NextTeardown]_vars

\* The singleton: no manager exists yet; both threads call Instance() and,
\* like sPluginManager->LoadPlugin(...), LoadPlugin on what it returned.
InstanceFiles == {"a.so", "b.so", "nosym.so"}

HostCallInstance(t) ==
    \/ Call(t, "Instance", "", "none")
    \/ /\ ret[t].op = "Instance" /\ ret[t].instance # 0
       /\ \E f \in InstanceFiles : Call(t, "LoadPlugin", "", f)

NextInstance ==
    \E t \in Threads :
        \/ HostCallInstance(t)
        \/ InstanceEnter(t)
        \/ InstanceCheck(t)
        \/ InstanceNew(t)
        \/ InstanceReturn(t)
        \/ LoadPlugin(t)
        \/ PluginLoadEnter(t)
        \/ PluginLoadExit(t)

InitInstance ==
    /\ InitMembers
    /\ _instance = 0
    /\ _instanceMutex = NoThread
    /\ constructed = 0
    /\ active = Threads
    /\ depsOf = [n \in PluginNames |-> <<>>]

SpecInstance == InitInstance /\ [][NextInstance]_vars

(***************************************************************************)
(* The lifecycle (README, Plugin Lifecycle; spec 4.2).                     *)
(***************************************************************************)
LifecycleTable ==
    {<<"UNLOADED", "LOADING">>, <<"LOADING", "LOADED">>, <<"LOADING", "UNLOADED">>,
     <<"LOADED", "INITIALIZING">>, <<"INITIALIZING", "INITIALIZED">>,
     <<"INITIALIZING", "ERROR">>, <<"INITIALIZED", "RUNNING">>, <<"RUNNING", "STOPPING">>,
     <<"STOPPING", "LOADED">>, <<"LOADED", "UNLOADED">>, <<"ERROR", "UNLOADED">>}

\* The LoadedPlugin of a loaded name, and its plugin's GetState().
Entry(n) == lib[_loadedPlugins[n]]

GetState(n) == Entry(n).state

\* Thread t is back from the call it was in (to the host or to a bulk loop).
Returned(t) == pc'[t] \in {"idle", "InitializeAll_loop", "UnloadAll_loop"}

\* C1: every change of the state of an ExamplePlugin-like plugin is one of
\* the transitions of the lifecycle table.
C1_OnlyTableTransitions ==
    [][\A s \in Slots :
          (/\ lib[s] # NoLib
           /\ lib'[s] # NoLib
           /\ ExampleLike(lib[s].file)
           /\ lib'[s].state # lib[s].state)
          => <<lib[s].state, lib'[s].state>> \in LifecycleTable]_vars

\* The call thread t is about to make asks for a transition the table lacks.
IllegalInitialize(t) ==
    /\ pc[t] = "InitializePlugin"
    /\ loc[t].name \in DOMAIN _loadedPlugins
    /\ GetState(loc[t].name) # "LOADED"

IllegalUnload(t) ==
    /\ pc[t] = "UnloadPlugin"
    /\ loc[t].name \in DOMAIN _loadedPlugins
    /\ GetState(loc[t].name) = "INITIALIZED"

\* C2: an operation that asks for a transition not in the lifecycle table
\* (InitializePlugin on a plugin not in state LOADED, UnloadPlugin on a plugin
\* in state INITIALIZED) returns without calling into the plugin and leaves
\* the plugins' states, the plugin table and the handler bindings unchanged.
C2_IllegalTransitionRejected ==
    [][\A t \in Threads :
          (/\ IllegalInitialize(t) \/ IllegalUnload(t)
           /\ pc'[t] # pc[t]
           /\ pc'[t] # "deadlocked")
          => /\ Returned(t)
             /\ UNCHANGED <<lib, _loadedPlugins, _eventHandlers>>]_vars

\* C3: UnloadPlugin on a RUNNING plugin calls Stop first, Unload after Stop
\* returned, and returns with the plugin UNLOADED, its entry erased and its
\* module handle closed exactly once.
C3_UnloadRunning ==
    [][\A t \in Threads :
          /\ (/\ pc[t] = "UnloadPlugin"
              /\ loc[t].name \in DOMAIN _loadedPlugins
              /\ GetState(loc[t].name) = "RUNNING"
              /\ pc'[t] # pc[t])
             => pc'[t] = "Stop_enter"
          /\ (pc[t] = "Stop_exit" /\ loc[t].op = "UnloadPlugin" /\ pc'[t] # pc[t])
             => pc'[t] = "Unload_unload" /\ lib'[loc[t].slot].state = "LOADED"
          /\ (pc[t] = "Unload_unregister" /\ loc[t].stopped /\ pc'[t] # pc[t])
             => /\ lib[loc[t].slot].state = "UNLOADED"
                /\ lib[loc[t].slot].handle /\ lib[loc[t].slot].closes = 0
                /\ UnloadPluginLibrary(lib[loc[t].slot]).closes = 1
                /\ lib'[loc[t].slot] = NoLib
                /\ loc[t].name \notin DOMAIN _loadedPlugins'
                /\ Returned(t)]_vars

\* A RUNNING plugin was unloaded: Stop was called and the handle closed once.
C3_Witness ==
    \E t \in Threads :
        /\ ret[t].op = "UnloadPlugin" /\ ret[t].ok /\ ret[t].stopped
        /\ ret[t].closes = 1
        /\ ret[t].arg \notin DOMAIN _loadedPlugins

(***************************************************************************)
(* The dependency graph of the loaded plugins.                             *)
(***************************************************************************)
Loaded == DOMAIN _loadedPlugins

\* The names a loaded plugin declares as dependencies.
DepsOfLoaded(n) == SeqToSet(GetDependencies(Entry(n).file))

RECURSIVE ReachWithin(_, _)
\* The names reached from the set R in at most k more dependency edges.
ReachWithin(R, k) ==
    IF k = 0 THEN R
    ELSE ReachWithin(R \cup UNION {DepsOfLoaded(m) : m \in R \cap Loaded}, k - 1)

\* The names a loaded plugin depends on, directly or not.
Requires(n) == ReachWithin(DepsOfLoaded(n), Cardinality(DepNames))

HasCycle == \E n \in Loaded : n \in Requires(n)

AllDepsLoaded == \A n \in Loaded : DepsOfLoaded(n) \subseteq Loaded

\* Thread t is inside InitializeAllPlugins, past GetPluginLoadOrder.
InInitializeAll(t) ==
    /\ loc[t].outer = "InitializeAllPlugins"
    /\ pc[t] \in {"InitializeAll_loop", "InitializePlugin", "Initialize_enter",
                   "Initialize_exit", "Initialize_register", "deadlocked"}

\* Every name of the sequence comes after all the dependencies it declares.
DepsFirst(order) ==
    \A i \in 1..Len(order) :
        order[i] \in Loaded =>
            \A d \in DepsOfLoaded(order[i]) : \E j \in 1..(i - 1) : order[j] = d

\* C4: with an acyclic dependency graph whose every dependency is loaded, the
\* load order InitializeAllPlugins works through holds every loaded name
\* exactly once, every name after all of its dependencies, and the plugin
\* whose Initialize is being called has had InitializePlugin called for each
\* of its dependencies before.
C4_LoadOrderTopological ==
    \A t \in Threads :
        (InInitializeAll(t) /\ ~HasCycle /\ AllDepsLoaded)
        => LET order == loc[t].loadOrder
           IN  /\ SeqToSet(order) = Loaded
               /\ Len(order) = Cardinality(Loaded)
               /\ DepsFirst(order)
               /\ pc[t] \in {"Initialize_enter", "Initialize_exit"}
                  => /\ loc[t].name = order[loc[t].i - 1]
                     /\ \A d \in DepsOfLoaded(loc[t].name) :
                           \E j \in 1..(loc[t].i - 2) : order[j] = d

\* C is being initialized after B and A, on which it depends, B after A.
C4_Witness ==
    \E t \in Threads :
        /\ InInitializeAll(t) /\ ~HasCycle /\ AllDepsLoaded
        /\ pc[t] = "Initialize_enter"
        /\ loc[t].name = "C"
        /\ depsOf["C"] = <<"B", "A">>
        /\ depsOf["B"] = <<"A">>
        /\ loc[t].loadOrder = <<"A", "B", "C">>

\* C5: with a cycle among the dependencies of the loaded plugins, computing
\* the load order ends, InitializeAllPlugins reports a cyclic-dependency
\* failure and changes nothing in the registry.
C5_CycleReported ==
    [][\A t \in Threads :
          (/\ pc[t] = "InitializeAllPlugins"
           /\ HasCycle
           /\ pc'[t] # pc[t] \/ crashed' # crashed)
          => /\ ~crashed'
             /\ pc'[t] = "idle"
             /\ ~ret'[t].ok /\ ret'[t].err = "cyclic_dependency"
             /\ UNCHANGED <<lib, _loadedPlugins, _eventHandlers>>]_vars

\* C6: when a loaded plugin declares a dependency that is not loaded,
\* computing the load order fails and the failure is returned to the caller.
C6_MissingDependencyReported ==
    [][\A t \in Threads :
          (/\ pc[t] = "InitializeAllPlugins"
           /\ ~AllDepsLoaded
           /\ pc'[t] # pc[t])
          => /\ pc'[t] = "idle"
             /\ ~ret'[t].ok]_vars

(***************************************************************************)
(* Loading and releasing modules.                                          *)
(***************************************************************************)
\* LoadPlugin(f) gets as far as the check of the name against the table.
ReachesNameCheck(f) ==
    /\ Catalog[f].exists /\ Catalog[f].binds /\ Catalog[f].hasCreate /\ Catalog[f].creates
    /\ Catalog[f].name # "" /\ Catalog[f].version # ""

\* LoadPlugin(f) gets as far as ValidatePlugin, which rejects the descriptor.
InvalidDescriptor(f) ==
    /\ Catalog[f].exists /\ Catalog[f].binds /\ Catalog[f].hasCreate /\ Catalog[f].creates
    /\ Catalog[f].name = "" \/ Catalog[f].version = ""

\* The module handles that are open.
OpenHandles == {s \in Slots : lib[s] # NoLib /\ lib[s].handle}

\* C7: LoadPlugin of a module whose name is already in the plugin table
\* returns false with the new module's handle closed once and no LoadedPlugin
\* left of it; the table, every LoadedPlugin (instance, handle, file, state)
\* and the handler bindings are unchanged.
C7_DuplicateNameRejected ==
    [][\A t \in Threads :
          (/\ pc[t] = "LoadPlugin"
           /\ ReachesNameCheck(loc[t].file)
           /\ Catalog[loc[t].file].name \in Loaded
           /\ pc'[t] # pc[t])
          => /\ pc'[t] = "idle"
             /\ ~ret'[t].ok /\ ret'[t].err = "already_loaded"
             /\ ret'[t].bound /\ ret'[t].closes = 1
             /\ UNCHANGED <<lib, _loadedPlugins, _eventHandlers>>]_vars

\* a2.so, which carries the name A, was rejected while A from a.so is loaded
\* with its handler bound.
C7_Witness ==
    \E t \in Threads :
        /\ ret[t].op = "LoadPlugin" /\ ret[t].arg = "a2.so"
        /\ ret[t].err = "already_loaded" /\ ret[t].closes = 1
        /\ "A" \in Loaded /\ Entry("A").file = "a.so"
        /\ "A" \in DOMAIN _eventHandlers

\* C8: every plugin in the table has a non-empty name and a non-empty
\* version, and a LoadPlugin of a module whose descriptor lacks either has
\* returned false with the module's handle closed once and no LoadedPlugin
\* or table entry left of it.
C8_EmptyIdentityRejected ==
    /\ \A n \in Loaded :
          /\ n # ""
          /\ Catalog[Entry(n).file].name = n
          /\ Catalog[Entry(n).file].version # ""
    /\ \A t \in Threads :
          (ret[t].op = "LoadPlugin" /\ InvalidDescriptor(ret[t].arg))
          => /\ ~ret[t].ok
             /\ ret[t].err = ValidatePlugin(ret[t].arg)
             /\ ret[t].bound /\ ret[t].closes = 1
             /\ \A k \in 1..MaxSlots : lib[<<ret[t].arg, k>>] = NoLib

\* A module with an empty version was rejected and its handle closed.
C8_Witness ==
    \E t \in Threads :
        /\ ret[t].op = "LoadPlugin" /\ ret[t].arg = "nover.so"
        /\ ret[t].err = "empty_version" /\ ret[t].closes = 1
        /\ Loaded # {}

\* C9: when LoadPlugin has returned false, the open module handles are
\* exactly those of the table's entries, and a module the call had bound was
\* closed once.
C9_NoHandleLeakOnFailure ==
    \A t \in Threads :
        (pc[t] = "idle" /\ ret[t].op = "LoadPlugin" /\ ~ret[t].ok)
        => /\ OpenHandles = Range(_loadedPlugins)
           /\ ret[t].bound => ret[t].closes = 1

\* LoadPlugin failed because the module lacks CreatePlugin, with a plugin
\* loaded.
C9_Witness ==
    \E t \in Threads :
        /\ pc[t] = "idle" /\ ret[t].op = "LoadPlugin" /\ ret[t].err = "no_create"
        /\ ret[t].bound /\ ret[t].closes = 1
        /\ Loaded # {}

\* C10: no module handle is closed more than once; every LoadedPlugin put in
\* the table is in it until it is unloaded, and its handle is closed by no
\* one but the UnloadPlugin that erases it; a LoadedPlugin that is gone has
\* had its handle closed once, and so has the module of every UnloadPlugin
\* that returned true.
C10_ReleasedExactlyOnce ==
    /\ \A s \in Slots :
          lib[s] # NoLib =>
             /\ lib[s].closes <= 1
             /\ lib[s].handle => lib[s].closes = 0
             /\ lib[s].owner = "gone" => (lib[s].closes = 1 /\ ~lib[s].handle)
             /\ lib[s].owner = "table" => s \in Range(_loadedPlugins)
    /\ \A n \in Loaded :
          ~Entry(n).handle =>
             \E t \in Threads : /\ pc[t] = "Unload_unregister"
                                /\ loc[t].slot = _loadedPlugins[n]
    /\ \A t \in Threads :
          (ret[t].op = "UnloadPlugin" /\ ret[t].ok) => (ret[t].bound /\ ret[t].closes = 1)

\* Both threads called UnloadPlugin("A"): one unloaded it and closed the
\* handle once, the other found no plugin of that name.
C10_Witness ==
    /\ ret["t1"].op = "UnloadPlugin" /\ ret["t1"].arg = "A"
    /\ ret["t1"].ok /\ ret["t1"].closes = 1
    /\ ret["t2"].op = "UnloadPlugin" /\ ret["t2"].arg = "A"
    /\ ~ret["t2"].ok /\ ret["t2"].err = "not_found"

(***************************************************************************)
(* Names in the table under concurrent loads.                              *)
(***************************************************************************)
\* The LoadedPlugin objects the table owns that carry the name n.
OwnedByName(n) ==
    {s \in Slots : lib[s] # NoLib /\ lib[s].owner = "table" /\ Catalog[lib[s].file].name = n}

\* C11: whatever the interleaving of LoadPlugin calls, the table owns at most
\* one LoadedPlugin per name, the one its entry of that name refers to; a
\* LoadPlugin that got past the lookup of the name works on a name the table
\* does not hold, so that an entry is never replaced; and of two calls for
\* the same name that have returned, one of them rejected as a duplicate,
\* the name is in the table.
C11_OneEntryPerName ==
    /\ \A n \in PluginNames :
          /\ Cardinality(OwnedByName(n)) <= 1
          /\ OwnedByName(n) = (IF n \in Loaded THEN {_loadedPlugins[n]} ELSE {})
    /\ \A t \in Threads :
          pc[t] \in {"Load_enter", "Load_exit"}
          => /\ Catalog[loc[t].file].name \notin Loaded
             /\ \A u \in Threads \ {t} : pc[u] \notin {"Load_enter", "Load_exit"}
    /\ \A t, u \in Threads :
          (/\ t # u /\ pc[t] = "idle" /\ pc[u] = "idle"
           /\ ret[t].op = "LoadPlugin" /\ ret[u].op = "LoadPlugin"
           /\ Catalog[ret[t].arg].name = Catalog[ret[u].arg].name
           /\ ret[t].err = "already_loaded"
           /\ ret[u].ok \/ ret[u].err = "already_loaded")
          => Catalog[ret[t].arg].name \in Loaded

\* Two threads loaded modules that both carry the name A: one was accepted,
\* the other rejected, and the table holds the accepted one.
C11_Witness ==
    \E t, u \in Threads :
        /\ t # u /\ pc[t] = "idle" /\ pc[u] = "idle"
        /\ ret[t].op = "LoadPlugin" /\ ret[t].ok /\ Catalog[ret[t].arg].name = "A"
        /\ ret[u].op = "LoadPlugin" /\ ret[u].err = "already_loaded"
        /\ Catalog[ret[u].arg].name = "A" /\ ret[u].arg # ret[t].arg
        /\ "A" \in Loaded /\ Entry("A").file = ret[t].arg

(***************************************************************************)
(* Handler bindings, dependencies and the plugins' states.                 *)
(***************************************************************************)
\* No thread is inside an operation of the manager.
Quiescent == \A t \in Threads : pc[t] = "idle"

\* C16: between operations, a handler is bound for a name exactly when the
\* plugin of that name is loaded and INITIALIZED or RUNNING.
C16_BindingIffInitializedOrRunning ==
    Quiescent =>
        \A n \in Loaded \cup DOMAIN _eventHandlers :
            n \in DOMAIN _eventHandlers
            <=> (n \in Loaded /\ GetState(n) \in {"INITIALIZED", "RUNNING"})

\* C17: between operations, every dependency a RUNNING plugin declares is
\* loaded and is not a plugin that never got past Initialize (a plugin in
\* state ERROR, or one still LOADED with no handler ever bound).
C17_RunningHasDependencies ==
    Quiescent =>
        \A n \in Loaded :
            GetState(n) = "RUNNING" =>
                \A d \in DepsOfLoaded(n) :
                    /\ d \in Loaded
                    /\ GetState(d) \notin {"UNLOADED", "LOADING", "INITIALIZING", "ERROR"}

\* A dependency of the plugin InitializePlugin is called for is not loaded,
\* or is loaded and has not reached INITIALIZED.
DependencyNotReady(t) ==
    /\ pc[t] = "InitializePlugin"
    /\ loc[t].name \in Loaded
    /\ \E d \in DepsOfLoaded(loc[t].name) :
          \/ d \notin Loaded
          \/ GetState(d) \in {"LOADED", "LOADING", "INITIALIZING", "ERROR", "UNLOADED"}

\* C18: InitializePlugin of a plugin with a dependency that is not loaded or
\* has not reached INITIALIZED returns false, without calling Initialize()
\* (no state changes) and without binding a handler.
C18_InitializeChecksDependencies ==
    [][\A t \in Threads :
          (/\ DependencyNotReady(t)
           /\ pc'[t] # pc[t]
           /\ pc'[t] # "deadlocked")
          => /\ Returned(t)
             /\ loc[t].outer = "none" => ~ret'[t].ok
             /\ UNCHANGED <<lib, _eventHandlers>>]_vars

\* C19: no thread ever waits for _pluginsMutex while it holds it itself, as
\* a thread does that never returns from InitializePlugin.
C19_InitializePluginReturns ==
    \A t \in Threads : ~(pc[t] = "deadlocked" /\ _pluginsMutex = t)

(***************************************************************************)
(* Event dispatch.                                                         *)
(***************************************************************************)
\* Thread t is back from the dispatch of an event of the set evs.
Dispatched(t, evs) == pc[t] = "idle" /\ ret[t].op \in evs

\* The names with a handler bound whose plugin is loaded and RUNNING.
RunningBound ==
    {n \in DOMAIN _eventHandlers : n \in Loaded /\ GetState(n) = "RUNNING"}

\* The priority of a loaded plugin and the rank of its handler's binding.
PriorityOf(n) == Catalog[Entry(n).file].priority

RegistrationRank(n) == CHOOSE k \in 1..Len(registered) : registered[k] = n

\* C12: the handlers a notification has called, none of which failed, were
\* called in descending priority, handlers of equal priority in the order
\* they were bound.
C12_PriorityThenRegistrationOrder ==
    \A t \in Threads :
        (Dispatched(t, NotificationEvents) /\ ret[t].ok) =>
            \A i, j \in 1..Len(ret[t].invoked) :
                i < j =>
                    LET a == ret[t].invoked[i]
                        b == ret[t].invoked[j]
                    IN  \/ PriorityOf(a) > PriorityOf(b)
                        \/ /\ PriorityOf(a) = PriorityOf(b)
                           /\ RegistrationRank(a) < RegistrationRank(b)

\* C13: a notification that was dispatched has called the handler of every
\* bound name whose plugin is loaded and RUNNING, once each, and no other.
C13_ExactlyRunningHandlers ==
    \A t \in Threads :
        Dispatched(t, NotificationEvents) =>
            /\ SeqToSet(ret[t].invoked) = RunningBound
            /\ Len(ret[t].invoked) = Cardinality(RunningBound)

\* C14: a notification returns to the host normally, with every handler that
\* was gathered called, whatever a handler threw.
C14_HandlerFailureIsolated ==
    \A t \in Threads :
        Dispatched(t, NotificationEvents) =>
            /\ ret[t].ok
            /\ ret[t].err # "exception"
            /\ ret[t].invoked = ret[t].handlers

WaitsForHandlers(t, u) ==
    /\ _pluginsMutex = t
    /\ pc[t] \in {"Unload_unregister", "Initialize_register"}
    /\ _eventHandlersMutex = u

\* Thread u holds _eventHandlersMutex and waits for _pluginsMutex (GetPlugin
\* in the walk of the handlers), which thread t holds.
WaitsForPlugins(u, t) ==
    /\ _eventHandlersMutex = u
    /\ pc[u] = "Gather_loop" /\ loc[u].pending # <<>>
    /\ _pluginsMutex = t

\* C20: a dispatch and an UnloadPlugin or InitializePlugin on two threads
\* never come to wait for each other's lock.
C20_NoLockOrderDeadlock ==
    \A t, u \in Threads : t # u => ~(WaitsForHandlers(t, u) /\ WaitsForPlugins(u, t))

(***************************************************************************)
(* Locks across calls into plugin code.                                    *)
(***************************************************************************)
\* Thread t is inside the plugin's Load, Initialize, Stop or Unload, called
\* by LoadPlugin, InitializePlugin, StopAllPlugins or UnloadPlugin.
InPluginCode(t) ==
    pc[t] \in {"Load_enter", "Load_exit", "Initialize_enter", "Initialize_exit",
               "Stop_enter", "Stop_exit", "Unload_unload"}

\* C21: no thread that is inside plugin code (Load, Initialize, Stop,
\* Unload) owns _pluginsMutex or _eventHandlersMutex.
C21_NoLockInPluginCode ==
    \A t \in Threads :
        InPluginCode(t) => _pluginsMutex # t /\ _eventHandlersMutex # t

(***************************************************************************)
(* Dispatch against UnloadPlugin.                                          *)
(***************************************************************************)
\* The dispatch of thread t is about to read the state and descriptor of the
\* plugin of slot s (GetState, GetInfo in the walk), or to call the handler
\* of that plugin.
ReadsPlugin(t, s) == pc[t] = "Gather_state" /\ loc[t].slot = s

CallsHandler(t, s) ==
    /\ pc[t] = "Invoke_loop"
    /\ loc[t].handlers # <<>>
    /\ Head(loc[t].handlers).slot = s

\* C22: a dispatch never reads the state or descriptor, and never calls the
\* handler, of a plugin whose instance was destroyed and whose module was
\* released.
C22_DispatchNeverUsesFreedPlugin ==
    \A t \in Threads : \A s \in Slots :
        ReadsPlugin(t, s) \/ CallsHandler(t, s) => ~Dangling(s)

(***************************************************************************)
(* The instance and the handle of its module.                              *)
(***************************************************************************)
\* C23: a plugin instance that exists has the handle of its module open:
\* no module is released while the instance created from it is alive.
C23_InstanceWithinHandle ==
    \A s \in Slots : lib[s] # NoLib /\ lib[s].plugin => lib[s].handle

(***************************************************************************)
(* Failures of initialization.                                             *)
(***************************************************************************)
\* C24: InitializeAllPlugins attempts every plugin of its order once: it
\* takes the names one by one and returns to the host only after it called
\* InitializePlugin for the last name of the order, whatever the calls
\* before returned.
C24_InitializeAllAttemptsAll ==
    [][\A t \in Threads :
          loc[t].outer = "InitializeAllPlugins" =>
              /\ pc'[t] = "idle" => loc[t].i > Len(loc[t].loadOrder)
              /\ pc[t] = "InitializeAll_loop" /\ pc'[t] = "InitializePlugin" =>
                    /\ loc'[t].name = loc[t].loadOrder[loc[t].i]
                    /\ loc'[t].i = loc[t].i + 1]_vars

\* Thread t is back at the host from InitializePlugin(n), which returned
\* false because the plugin's Initialize() did.
InitializeFailed(t, n) ==
    /\ pc[t] = "idle"
    /\ ret[t].op = "InitializePlugin" /\ ret[t].arg = n
    /\ ~ret[t].ok /\ ret[t].err = "init_failed"

\* C25: after InitializePlugin returned false because the plugin's
\* Initialize() failed, the plugin is in state ERROR and has no handler bound.
C25_FailedInitializeEndsInError ==
    \A t \in Threads : \A n \in DOMAIN _loadedPlugins :
        InitializeFailed(t, n) => GetState(n) = "ERROR" /\ n \notin DOMAIN _eventHandlers

\* The plugin of slot s is left over from an Initialize() that failed: it is
\* in state ERROR, or in INITIALIZING with no thread inside its Initialize().
InitializationFailed(s) ==
    /\ lib[s] # NoLib
    /\ \/ lib[s].state = "ERROR"
       \/ /\ lib[s].state = "INITIALIZING"
          /\ \A u \in Threads : ~(pc[u] = "Initialize_exit" /\ loc[u].slot = s)

\* C26: the manager never calls Initialize() on a plugin whose initialization
\* has failed (a new instance, loaded after UnloadPlugin, starts in LOADED).
C26_NoRetryAfterFailure ==
    \A t \in Threads :
        pc[t] = "Initialize_enter" => ~InitializationFailed(loc[t].slot)

(***************************************************************************)
(* The last-error slot.                                                    *)
(***************************************************************************)
\* The load errors (file missing, bind failure, missing entry point, no
\* instance, Load() failed), validation errors (empty name or version, name
\* already loaded) and dependency errors with which LoadPlugin and
\* InitializePlugin return false.
ReportedErrors ==
    {"not_exist", "bind_failed", "no_create", "no_instance", "load_failed",
     "empty_name", "empty_version", "already_loaded", "deps_not_met"}

\* C27: when a call has returned false to the host with a load, validation
\* or dependency error, GetLastError() gives the message of that error.
C27_FailureRecordedAsLastError ==
    \A t \in Threads :
        pc[t] = "idle" /\ ~ret[t].ok /\ ret[t].err \in ReportedErrors
            => _lastError = ret[t].err

(***************************************************************************)
(* The walks of UnloadAllPlugins and StopAllPlugins.                       *)
(***************************************************************************)
\* Thread t is inside UnloadAllPlugins, after the snapshot of the names.
InUnloadAll(t) == loc[t].outer = "UnloadAllPlugins"

\* Thread t is inside the walk of StopAllPlugins.
InStopAll(t) ==
    loc[t].op = "StopAllPlugins" /\ pc[t] \in {"StopAll_loop", "Stop_enter", "Stop_exit"}

NoneRunning == \A n \in DOMAIN _loadedPlugins : GetState(n) # "RUNNING"

\* C29: StopAllPlugins calls Stop() only on a RUNNING plugin; during the call
\* nothing changes but the state of the plugin being stopped, which goes
\* from RUNNING through STOPPING to LOADED; when it returns no plugin is
\* RUNNING; and a StopAllPlugins over a table with no RUNNING plugin (a second
\* call right after the first) returns with no Stop() called and nothing
\* changed.
C29_StopAllIdempotent ==
    [][\A t \in Threads :
          InStopAll(t) =>
              /\ pc[t] = "StopAll_loop" /\ pc'[t] = "Stop_enter" =>
                    lib[loc'[t].slot].state = "RUNNING"
              /\ \A s \in Slots :
                    lib'[s] # lib[s] =>
                        /\ s = loc[t].slot
                        /\ <<lib[s].state, lib'[s].state>> \in
                              {<<"RUNNING", "STOPPING">>, <<"STOPPING", "LOADED">>}
                        /\ lib'[s] = [lib[s] EXCEPT !.state = lib'[s].state]
              /\ _loadedPlugins' = _loadedPlugins /\ _eventHandlers' = _eventHandlers
              /\ pc'[t] = "idle" => NoneRunning
              /\ pc[t] = "StopAll_loop" /\ NoneRunning => pc'[t] = "idle" /\ lib' = lib
       ]_vars

\* StopAllPlugins starts its walk over a table with a plugin stopped before
\* (LOADED, its handler still bound), a plugin INITIALIZED and none RUNNING.
C29_Witness ==
    \E t \in Threads :
        /\ InStopAll(t) /\ pc[t] = "StopAll_loop" /\ ~loc[t].stopped
        /\ NoneRunning
        /\ \E n \in DOMAIN _loadedPlugins :
              GetState(n) = "LOADED" /\ n \in DOMAIN _eventHandlers
        /\ \E n \in DOMAIN _loadedPlugins : GetState(n) = "INITIALIZED"

\* C30: a StartAllPlugins call moves every plugin of the table that is
\* INITIALIZED to RUNNING and leaves every other plugin in its state; the
\* LoadedPlugin objects are otherwise unchanged, and so are the table, the
\* handler bindings and the last-error slot.
C30_StartAllFrame ==
    [][\A t \in Threads :
          pc[t] = "StartAllPlugins" /\ pc'[t] = "idle" =>
              /\ _loadedPlugins' = _loadedPlugins
              /\ _eventHandlers' = _eventHandlers
              /\ _lastError' = _lastError
              /\ \A n \in DOMAIN _loadedPlugins :
                    LET s == _loadedPlugins[n]
                    IN  /\ lib'[s].state = IF lib[s].state = "INITIALIZED" THEN "RUNNING"
                                           ELSE lib[s].state
                        /\ lib'[s] = [lib[s] EXCEPT !.state = lib'[s].state]
              /\ \A s \in Slots \ Range(_loadedPlugins) : lib'[s] = lib[s]
       ]_vars

\* StartAllPlugins has returned over a table with a plugin it started and a
\* plugin it left LOADED.
C30_Witness ==
    \E t \in Threads :
        /\ pc[t] = "idle" /\ ret[t].op = "StartAllPlugins"
        /\ \E n \in DOMAIN _loadedPlugins : GetState(n) = "RUNNING"
        /\ \E n \in DOMAIN _loadedPlugins : GetState(n) = "LOADED"

(***************************************************************************)
(* Where handler bindings come from.                                       *)
(***************************************************************************)
\* The step binds a handler for name n: n gets a binding, or another one.
Binds(n) ==
    /\ n \in DOMAIN _eventHandlers'
    /\ n \notin DOMAIN _eventHandlers \/ _eventHandlers'[n] # _eventHandlers[n]

\* C31: a handler is bound for a name only by the InitializePlugin of that
\* name, after the plugin's Initialize() returned true (the plugin is past
\* Initialize and INITIALIZED), and that call returns true; no step of
\* LoadPlugin, and no InitializePlugin that returns false, binds a handler.
C31_BindingOnlyAfterInitialize ==
    [][\A n \in PluginNames :
          Binds(n) =>
              \E t \in Threads :
                  /\ pc[t] = "Initialize_register" /\ loc[t].name = n
                  /\ _loadedPlugins[n] = loc[t].slot
                  /\ _eventHandlers'[n] = loc[t].slot
                  /\ Catalog[lib[loc[t].slot].file].initOk
                  /\ lib[loc[t].slot].state = "INITIALIZED"
                  /\ loc[t].outer = "none" => ret'[t].ok
       ]_vars

\* InitializePlugin has returned true with the handler of its plugin bound,
\* while a plugin whose Initialize() failed is loaded with no handler bound.
C31_Witness ==
    \E t \in Threads :
        /\ pc[t] = "idle" /\ ret[t].op = "InitializePlugin" /\ ret[t].ok
        /\ ret[t].arg \in DOMAIN _eventHandlers
        /\ \E n \in DOMAIN _loadedPlugins :
              GetState(n) = "ERROR" /\ n \notin DOMAIN _eventHandlers

(***************************************************************************)
(* The entry points of a module.                                           *)
(***************************************************************************)
\* LoadPlugin(f) gets as far as dlsym: the file exists and binds.
Binding(f) == Catalog[f].exists /\ Catalog[f].binds

\* C32: when LoadPlugin(f) has returned, (1) for a module that binds and has
\* no CreatePlugin it returned false with the handle closed once, the
\* factory not called, and no LoadedPlugin of f in the table or left open;
\* (2) a module that lacks only DestroyPlugin was loaded, or refused only
\* because its name is loaded already; (3) CreatePlugin was called once when
\* the module binds and exports it, never otherwise.
C32_EntryPoints ==
    \A t \in Threads :
        pc[t] = "idle" /\ ret[t].op = "LoadPlugin" =>
            LET f == ret[t].arg
                m == Catalog[f]
            IN  /\ Binding(f) /\ ~m.hasCreate =>
                      /\ ~ret[t].ok /\ ret[t].err = "no_create"
                      /\ ret[t].bound /\ ret[t].closes = 1
                      /\ \A s \in Slots : lib[s] # NoLib => lib[s].file # f
                /\ f = "b.so" =>
                      /\ ~m.hasDestroy
                      /\ ret[t].ok \/ ret[t].err = "already_loaded"
                      /\ ret[t].ok =>
                            /\ m.name \in DOMAIN _loadedPlugins
                            /\ ~Entry(m.name).destroyFunc
                /\ ret[t].created = IF Binding(f) /\ m.hasCreate THEN 1 ELSE 0

\* LoadPlugin of the module without CreatePlugin has returned false while
\* the plugin of the module without DestroyPlugin is in the table.
C32_Witness ==
    \E t \in Threads :
        /\ pc[t] = "idle" /\ ret[t].op = "LoadPlugin" /\ ret[t].arg = "nosym.so"
        /\ "B" \in DOMAIN _loadedPlugins
        /\ Entry("B").file = "b.so" /\ Entry("B").createFunc /\ ~Entry("B").destroyFunc

\* C33: the DestroyPlugin of a module that exports it is called once when the
\* module is released: UnloadPluginLibrary, applied by UnloadPlugin to the
\* LoadedPlugin it is about to release, leaves one call of the hook on
\* record, and so does a LoadPlugin that returned after releasing the module.
C33_TeardownHookInvoked ==
    \A t \in Threads :
        /\ /\ pc[t] = "Unload_unregister"
           /\ lib[loc[t].slot].handle /\ lib[loc[t].slot].destroyFunc
           => UnloadPluginLibrary(lib[loc[t].slot]).destroys = 1
        /\ /\ pc[t] = "idle" /\ ret[t].op = "LoadPlugin"
           /\ ret[t].bound /\ ret[t].closes = 1 /\ Catalog[ret[t].arg].hasDestroy
           => ret[t].destroys = 1

(***************************************************************************)
(* The statistics of the example plugin.                                   *)
(***************************************************************************)
\* Thread t is between the load and the store of ++_totalLogins on slot s.
InTrackPlayerLogin(t, s) ==
    pc[t] = "Track_store" /\ Head(loc[t].handlers).slot = s

\* C34: no increment of _totalLogins is lost: whenever no thread is inside
\* TrackPlayerLogin of a plugin, its _totalLogins has grown by the number of
\* TrackPlayerLogin calls completed on it.
C34_NoLostLogin ==
    \A s \in Slots :
        /\ lib[s] # NoLib
        /\ \A t \in Threads : ~InTrackPlayerLogin(t, s)
        => lib[s]._totalLogins = lib[s].logins

(***************************************************************************)
(* LoadPlugin and the plugin's Load().                                     *)
(***************************************************************************)
\* The step puts name n into the plugin table, or maps it to another
\* LoadedPlugin.
Inserts(n) ==
    /\ n \in DOMAIN _loadedPlugins'
    /\ n \notin DOMAIN _loadedPlugins \/ _loadedPlugins'[n] # _loadedPlugins[n]

\* C35: a name enters the plugin table only in the step in which LoadPlugin
\* goes on after that plugin's Load() returned true; and a LoadPlugin that
\* returns after Load() returned false returns false, has closed the module
\* handle once, has recorded the error, leaves the table as it was and keeps
\* no LoadedPlugin of that module.
C35_AcceptedOnlyAfterLoad ==
    [][/\ \A n \in PluginNames :
             Inserts(n) =>
                 \E t \in Threads :
                     /\ pc[t] = "Load_exit"
                     /\ Catalog[loc[t].file].loadOk
                     /\ Catalog[loc[t].file].name = n
                     /\ _loadedPlugins'[n] = loc[t].slot
                     /\ pc'[t] = "idle" /\ ret'[t].ok
       /\ \A t \in Threads :
             /\ pc[t] = "Load_exit"
             /\ ~Catalog[loc[t].file].loadOk
             /\ pc'[t] = "idle"
             => /\ ret'[t].op = "LoadPlugin" /\ ~ret'[t].ok
                /\ ret'[t].closes = 1
                /\ _lastError' = "load_failed"
                /\ _loadedPlugins' = _loadedPlugins
                /\ lib'[loc[t].slot] = NoLib]_vars

\* LoadPlugin of a module whose Load() returns false has returned, with
\* another plugin in the table.
C35_Witness ==
    \E t \in Threads :
        /\ pc[t] = "idle" /\ ret[t].op = "LoadPlugin" /\ ret[t].err = "load_failed"
        /\ ~Catalog[ret[t].arg].loadOk
        /\ _lastError = "load_failed"
        /\ _loadedPlugins # <<>>
        /\ Catalog[ret[t].arg].name \notin DOMAIN _loadedPlugins

(***************************************************************************)
(* The handler bindings and the plugin table.                              *)
(***************************************************************************)
\* Every bound name is a key of the plugin table, bound to the handler of
\* the plugin the table holds, and bound once.
BindingsWithinTable ==
    /\ \A n \in DOMAIN _eventHandlers :
          /\ n \in DOMAIN _loadedPlugins
          /\ _eventHandlers[n] = _loadedPlugins[n]
          /\ Cardinality({k \in 1..Len(registered) : registered[k] = n}) = 1
    /\ \A k \in 1..Len(registered) : registered[k] \in DOMAIN _eventHandlers

\* The step erases name n from the plugin table or closes the module of the
\* plugin the table holds under n.
Releases(n) ==
    /\ n \in DOMAIN _loadedPlugins
    /\ \/ n \notin DOMAIN _loadedPlugins'
       \/ lib[_loadedPlugins[n]].handle /\ ~lib'[_loadedPlugins[n]].handle

\* C36: with handlers registered through InitializePlugin only, every step
\* leaves at most one binding per plugin name, each under a key of the
\* plugin table; an InitializePlugin that returns true on a name already
\* bound leaves the bindings as many as they were; and a step in which the
\* module of a plugin is closed or its entry erased leaves no binding of
\* that name.
C36_OneBindingPerLoadedPlugin ==
    [][/\ BindingsWithinTable'
       /\ \A t \in Threads :
             /\ pc[t] = "Initialize_register"
             /\ loc[t].name \in DOMAIN _eventHandlers
             => /\ DOMAIN _eventHandlers' = DOMAIN _eventHandlers
                /\ registered' = registered
       /\ \A n \in PluginNames : Releases(n) => n \notin DOMAIN _eventHandlers']_vars

\* InitializePlugin has returned true in both threads on the same plugin,
\* which is bound, while the other plugin is neither loaded nor bound.
C36_Witness ==
    \E t, u \in Threads :
        /\ t # u
        /\ pc[t] = "idle" /\ ret[t].op = "InitializePlugin" /\ ret[t].ok
        /\ pc[u] = "idle" /\ ret[u].op = "InitializePlugin" /\ ret[u].ok
        /\ ret[u].arg = ret[t].arg
        /\ ret[t].arg \in DOMAIN _eventHandlers
        /\ DOMAIN _loadedPlugins = {ret[t].arg}
        /\ Len(registered) = 1
(***************************************************************************)
(* UnloadAllPlugins alone.                                                 *)
(***************************************************************************)
\* C37: with one thread calling, UnloadAllPlugins returns with an empty
\* plugin table, no handler binding and no module handle open, whatever
\* states the plugins were in.
C37_UnloadAllEmpties ==
    \A t \in Threads :
        pc[t] = "idle" /\ ret[t].op = "UnloadAllPlugins" =>
            /\ DOMAIN _loadedPlugins = {}
            /\ DOMAIN _eventHandlers = {}
            /\ registered = <<>>
            /\ \A s \in Slots : lib[s] # NoLib => ~lib[s].handle

\* UnloadAllPlugins, called on a table that held a plugin, has returned.
C37_Witness ==
    \E t \in Threads :
        /\ pc[t] = "idle" /\ ret[t].op = "UnloadAllPlugins" /\ ret[t].ok
        /\ _loadedPlugins = EmptyMap
        /\ ~crashed

(***************************************************************************)
(* A stopped plugin.                                                       *)
(***************************************************************************)
\* Thread t is about to invoke the handler of the LoadedPlugin in slot s.
Invoking(t, s) ==
    /\ pc[t] = "Invoke_loop"
    /\ loc[t].handlers # <<>>
    /\ Head(loc[t].handlers).slot = s

\* C38: the Stop() that StopAllPlugins calls leaves the plugin LOADED; a
\* plugin becomes RUNNING only from INITIALIZED, and INITIALIZED only in the
\* step in which the Initialize() called by InitializePlugin returns; and a
\* handler is invoked only while its plugin is RUNNING.  So a stopped plugin
\* stays out of the dispatch, StartAllPlugins or not, until InitializePlugin
\* has run on it.
C38_StoppedStaysOut ==
    [][\A s \in Slots :
          /\ \A t \in Threads :
                InStopAll(t) /\ pc[t] = "Stop_exit" /\ loc[t].slot = s
                    => lib'[s].state = "LOADED"
          /\ lib'[s] # NoLib /\ lib[s] # NoLib =>
                /\ lib'[s].state = "RUNNING" => lib[s].state \in {"RUNNING", "INITIALIZED"}
                /\ lib'[s].state = "INITIALIZED" /\ lib[s].state # "INITIALIZED" =>
                      \E t \in Threads :
                          /\ pc[t] = "Initialize_exit" /\ loc[t].slot = s
                          /\ loc[t].op = "InitializePlugin"
          /\ \A t \in Threads : Invoking(t, s) => lib[s] # NoLib /\ lib[s].state = "RUNNING"]_vars

\* A dispatch has returned that invoked the handler of running plugin B and
\* not the handler, still bound, of plugin A, which is LOADED.
C38_Witness ==
    \E t \in Threads :
        /\ pc[t] = "idle" /\ ret[t].op \in DispatchEvents /\ ret[t].ok
        /\ "A" \in DOMAIN _eventHandlers /\ "A" \in DOMAIN _loadedPlugins
        /\ _eventHandlers["A"] = _loadedPlugins["A"]
        /\ GetState("A") = "LOADED"
        /\ "B" \in DOMAIN _loadedPlugins /\ GetState("B") = "RUNNING"
        /\ Contains(ret[t].invoked, "B") /\ ~Contains(ret[t].invoked, "A")

(***************************************************************************)
(* The singleton.                                                          *)
(***************************************************************************)
\* C39: Instance() constructs at most one PluginManager, and every call of
\* it that has returned returned that manager: not null, and the one
\* _instance holds.
C39_OneInstance ==
    /\ constructed <= 1
    /\ \A t \in Threads :
          pc[t] = "idle" /\ ret[t].op = "Instance" =>
              /\ ret[t].ok
              /\ ret[t].instance # 0
              /\ ret[t].instance = _instance
              /\ constructed = 1

\* Instance() has returned the manager in both threads, before either used
\* it.
C39_Witness ==
    /\ \A t \in Threads : pc[t] = "idle" /\ ret[t].op = "Instance" /\ ret[t].instance = 1
    /\ _loadedPlugins = EmptyMap
    /\ _lastError = "none"

====
